---- MODULE Spec2Model ----
(***************************************************************************)
(* A model of the client side of the RPC engine (src/src/mercury.c) and of *)
(* the CCI network-abstraction plugin (src/src/na/na_cci.c).               *)
(*                                                                         *)
(* Spec     the RPC engine: HG_Init, HG_Finalize, HG_Register,             *)
(*          HG_Registered, HG_Forward, the two completion callbacks,       *)
(*          HG_Wait, HG_Wait_all and HG_Request_free.  HG_Forward posts    *)
(*          through the plugin's post operations; the plugin's completions *)
(*          reach the callbacks through the NA layer's trigger.            *)
(* SpecTag  hg_gen_request_tag called by concurrent threads, one atomic    *)
(*          instruction per step.                                          *)
(* SpecCCI  the CCI plugin: posting sends, na_cci_progress, the event      *)
(*          handlers, na_cci_complete and the trigger of the NA layer.     *)
(***************************************************************************)
EXTENDS Integers, Sequences, FiniteSets, TLC

(***************************************************************************)
(* Bounds of the model.                                                    *)
(***************************************************************************)
\* Number of struct hg_request objects HG_Forward may allocate in one run.
MaxReq == 1
\* Scaled-down value of the transport's largest tag (NA_CCI_MAX_TAG).
MaxTag == 2
\* Number of threads that draw tags concurrently in SpecTag.
MaxThreads == 2
\* Number of tags one thread draws in SpecTag.
MaxDraws == 3
\* Number of sends posted in one run of SpecCCI.
MaxOps == 3
\* Calls of na_cci_put and na_cci_get.
MaxRmaCalls == 3

NULL == "NULL"

Reqs == 1..MaxReq

\* The only NA class of the model: na_cci_class_g.
NaClass == "cci"

HG_SUCCESS == "HG_SUCCESS"
HG_FAIL == "HG_FAIL"
NA_SUCCESS == "NA_SUCCESS"
NA_TIMEOUT == "NA_TIMEOUT"
NA_NOMEM_ERROR == "NA_NOMEM_ERROR"
NA_PROTOCOL_ERROR == "NA_PROTOCOL_ERROR"
NA_SIZE_ERROR == "NA_SIZE_ERROR"
NA_PERMISSION_ERROR == "NA_PERMISSION_ERROR"

VARIABLES
    \* ---- src/src/mercury.c: process-wide state -------------------------
    hg_na_class_g,                   \* NULL or the NA class
    hg_context_g,                    \* NULL, "own" or "bulk"
    hg_request_class_g,              \* NULL, "own" or "bulk"
    hg_bulk_initialized_internal_g,  \* BOOLEAN
    hg_func_map_g,                   \* the function map: id -> proc info
    hg_request_tag_g,                \* the atomic tag counter
    hg_request_max_tag_g,            \* largest tag of the transport
    hg_bulk_na_class_g,              \* extern: NA class of the bulk layer
    \* ---- src/src/mercury.c: requests -----------------------------------
    req,                             \* [Reqs -> struct hg_request + heap]
    wait,                            \* the HG_Wait / HG_Wait_all in progress
    status,                          \* [Reqs -> last *status HG_Wait wrote]
    call,                            \* last API call and what it returned
    fwd,                             \* what the last HG_Forward did
    crashed,                         \* the process died of a NULL dereference
    \* ---- src/src/na/na_cci.c -------------------------------------------
    rxs,                             \* [addr -> na_cci_addr.rxs]
    early,                           \* [addr -> na_cci_addr.early]
    sends,                           \* sends handed to cci_sendv, in flight
    completion_queue,                \* completion queue of the NA context
    \* ---- SpecTag -------------------------------------------------------
    tpc,                             \* [thread -> position in the function]
    ttag,                            \* [thread -> tag of the last draw]
    tdraws,                          \* [thread -> number of draws made]
    \* ---- SpecCCI -------------------------------------------------------
    nops,                            \* number of na_cci_op_id allocated
    events,                          \* events of the CCI endpoint, in order
    handled,                         \* ops whose SEND event was handled
    cb_count,                        \* [op -> times its callback ran]
    na_ret,                          \* last NA call and what it returned
    \* ---- src/src/na/na_cci.c: receives ---------------------------------
    unexpected_msg_queue,            \* private data: buffered messages
    unexpected_op_queue,             \* private data: posted receives
    nmsgs,                           \* number of messages that arrived
    posts,                           \* the receives posted, in order
    matched,                         \* the pairs message/receive, in order
    post_pc,                         \* the posting thread's position
    prog_pc,                         \* the progress thread's position
    \* ---- SpecTimeout ---------------------------------------------------
    tw,                              \* the timeouts of one HG_Wait
    wa,                              \* one HG_Wait_all and its requests
    \* ---- history -------------------------------------------------------
    reg_hist,                        \* [name -> how HG_Register went for it]
    bulk_owner,                      \* who initialized the bulk layer
    \* ---- src/src/na/na_cci.c: progress, cancel, memory handles ---------
    pg,                              \* the na_cci_progress in progress
    cancelled,                       \* op_ids given to na_cci_cancel
    mh                               \* a memory handle and its serialization

hgvars == <<hg_na_class_g, hg_context_g, hg_request_class_g,
            hg_bulk_initialized_internal_g, hg_func_map_g, hg_request_tag_g,
            hg_request_max_tag_g, hg_bulk_na_class_g>>
navars == <<rxs, early, sends, completion_queue>>
reqvars == <<req, wait, status, fwd, navars>>
tagvars == <<tpc, ttag, tdraws>>
ccivars == <<nops, events, handled, cb_count, na_ret>>
rcvvars == <<unexpected_msg_queue, unexpected_op_queue, nmsgs, posts, matched,
             post_pc, prog_pc>>
timevars == <<tw, wa>>
histvars == <<reg_hist, bulk_owner>>
plugvars == <<pg, cancelled, mh>>
vars == <<hgvars, reqvars, call, crashed, tagvars, ccivars, rcvvars,
          timevars, histvars, plugvars>>

(***************************************************************************)
(* Collaborators that are not part of the two source files.                *)
(***************************************************************************)
\* Procedure names the application registers.
Names == {"rpc_a", "rpc_b", "rpc_z"}

\* Procedure ids: the hashes of Names, and 2, which no name hashes to.
Ids == {0, 1, 2}

\* hg_hash_string: a stable hash; "rpc_a" and "rpc_b" collide, "rpc_z"
\* hashes to 0.
hg_hash_string(name) ==
    CASE name = "rpc_a" -> 1
      [] name = "rpc_b" -> 1
      [] name = "rpc_z" -> 0

\* The lookup of a key that has no entry returns HG_HASH_TABLE_NULL.
NoEntry == [name |-> NULL, freed |-> FALSE]

\* hg_func_map_g before hg_hash_table_new and after hg_hash_table_free.
NullMap == [null |-> TRUE, tab |-> [i \in Ids |-> NoEntry]]

\* hg_hash_table_new: a table with no entry.
hg_hash_table_new == [null |-> FALSE, tab |-> [i \in Ids |-> NoEntry]]

\* hg_hash_table_insert: the entry of an equal key is replaced.
hg_hash_table_insert(map, id, info) == [map EXCEPT !.tab[id] = info]

\* hg_hash_table_lookup: the outcomes of a lookup.  An entry whose key and
\* value were freed is compared through a dangling pointer: it may be
\* found or not.
hg_hash_table_lookup(map, id) ==
    IF map.tab[id] = NoEntry THEN {NoEntry}
    ELSE IF map.tab[id].freed THEN {NoEntry, map.tab[id]}
    ELSE {map.tab[id]}

\* What the application has seen of HG_Register since the function map was
\* created, for each name: "never" (no call), "failed" (every call returned
\* 0) or "ok" (a call returned the id of the name).
NoRegistration == [n \in Names |-> "never"]

\* bulk_owner is "none" while the bulk layer is not initialized, "app" when
\* the application initialized it and "engine" when HG_Init did.
HistIdle ==
    /\ reg_hist = NoRegistration
    /\ bulk_owner = "none"

\* The owner of the bulk layer after a call of the engine that left
\* hg_bulk_na_class_g as `bulk`.
BulkOwner(bulk) ==
    IF bulk = hg_bulk_na_class_g THEN bulk_owner
    ELSE IF bulk = NULL THEN "none" ELSE "engine"

\* The history after a call that left the function map as `map`: it starts
\* again when the map was created or destroyed.
KeepHistory(map) ==
    IF map = hg_func_map_g THEN reg_hist ELSE NoRegistration

\* extern hg_handler_na_class_g: the server-side handler module is not
\* initialized in a client process.
hg_handler_na_class_g == NULL

(***************************************************************************)
(* What an API call reports to its caller.                                 *)
(***************************************************************************)
\* A NULL hg_request_t.
NoReq == 0

\* op: the function that returned last; ret: its return value; r: the
\* request it was given or returned; flag, id: what HG_Registered and
\* HG_Register gave back (for HG_Wait, flag: status was not NULL); n: the parity of the number of calls that have returned, so
\* that every return changes `call`.
Call(op, ret, r, flag, id) ==
    [op |-> op, ret |-> ret, r |-> r, flag |-> flag, id |-> id,
     n |-> 1 - call.n]

NoCall ==
    [op |-> "none", ret |-> "none", r |-> NoReq, flag |-> FALSE, id |-> 0,
     n |-> 0]

\* HG_Initialized: *flag.
HG_Initialized == hg_na_class_g # NULL

(***************************************************************************)
(* HG_Init                                                                 *)
(***************************************************************************)
InitFails == {"none", "context", "bulk", "map"}

\* The process-wide state as a record, for the operators that compute the
\* effect of an API call.
HgState ==
    [cls |-> hg_na_class_g, ctx |-> hg_context_g, rcls |-> hg_request_class_g,
     internal |-> hg_bulk_initialized_internal_g, map |-> hg_func_map_g,
     tag |-> hg_request_tag_g, max |-> hg_request_max_tag_g,
     bulk |-> hg_bulk_na_class_g]

\* na_cci_msg_get_max_tag
na_cci_msg_get_max_tag == MaxTag

\* A variant of hg_bulk_initialized_internal that always claims the bulk
\* layer.
hg_bulk_initialized_internal_always(bulk_initialized) == TRUE

\* hg_bulk_initialized_internal_g = (hg_bool_t) (!bulk_initialized)
hg_bulk_initialized_internal(bulk_initialized) == ~bulk_initialized

\* The effect of HG_Init(na_class) on the state g; `fail` names the
\* collaborator that fails.  ub: hg_hash_table_register_free_functions is
\* called with the NULL table.
HG_Init_effect(g, na_class, fail) ==
    IF na_class = NULL \/ g.cls # NULL
    THEN [ret |-> HG_FAIL, ub |-> FALSE, g |-> g]
    ELSE
    LET g1 == [g EXCEPT !.cls = na_class]
        shared == g1.bulk = g1.cls
        g2 == IF shared
              THEN [g1 EXCEPT !.ctx = "bulk", !.rcls = "bulk"]
              ELSE IF hg_handler_na_class_g # NULL
              THEN [g1 EXCEPT !.ctx = "handler", !.rcls = "handler"]
              ELSE IF fail = "context"
              THEN [g1 EXCEPT !.ctx = NULL]
              ELSE [g1 EXCEPT !.ctx = "own", !.rcls = "own"]
        bulk_initialized == g.bulk # NULL
    IN  IF ~shared /\ hg_handler_na_class_g = NULL /\ fail = "context"
        THEN [ret |-> HG_FAIL, ub |-> FALSE, g |-> g2]
        ELSE IF ~bulk_initialized /\ fail = "bulk"
        THEN [ret |-> HG_FAIL, ub |-> FALSE, g |-> g2]
        ELSE
        LET g3 == [g2 EXCEPT !.bulk = IF bulk_initialized THEN @ ELSE na_class,
                             !.internal = hg_bulk_initialized_internal(
                                              bulk_initialized),
                             !.max = na_cci_msg_get_max_tag,
                             !.tag = 0]
        IN  IF fail = "map"
            THEN [ret |-> HG_FAIL, ub |-> TRUE, g |-> [g3 EXCEPT !.map = NullMap]]
            ELSE [ret |-> HG_SUCCESS, ub |-> FALSE,
                  g |-> [g3 EXCEPT !.map = hg_hash_table_new]]

\* Writes the record g back to the process-wide variables.
SetHg(g) ==
    /\ hg_na_class_g' = g.cls
    /\ hg_context_g' = g.ctx
    /\ hg_request_class_g' = g.rcls
    /\ hg_bulk_initialized_internal_g' = g.internal
    /\ hg_func_map_g' = g.map
    /\ hg_request_tag_g' = g.tag
    /\ hg_request_max_tag_g' = g.max
    /\ hg_bulk_na_class_g' = g.bulk

\* What follows an execution with or without undefined behaviour: the
\* process dies (TRUE) or goes on as the code reads (FALSE).
Outcomes(ub) == IF ub THEN {FALSE, TRUE} ELSE {FALSE}

\* No API call is made while the application thread is inside HG_Wait, nor
\* after the process died.
AppIdle == ~crashed /\ wait.stage = "idle"

HG_Init(na_class, fail) ==
    /\ AppIdle
    /\ LET e == HG_Init_effect(HgState, na_class, fail)
       IN  /\ SetHg(e.g)
           /\ call' = Call("HG_Init", e.ret, NoReq, FALSE, 0)
           /\ crashed' \in Outcomes(e.ub)
           /\ reg_hist' = KeepHistory(e.g.map)
           /\ bulk_owner' = BulkOwner(e.g.bulk)
    /\ UNCHANGED <<reqvars, tagvars, ccivars, rcvvars, timevars, plugvars>>

(***************************************************************************)
(* HG_Finalize                                                             *)
(***************************************************************************)
FinalizeFails == {"none", "bulk", "context"}

\* The effect of HG_Finalize on the state g.  ub: hg_hash_table_free is
\* called with the NULL table.
HG_Finalize_effect(g, fail) ==
    IF g.cls = NULL
    THEN [ret |-> HG_FAIL, ub |-> FALSE, g |-> g]
    ELSE IF g.internal /\ fail = "bulk"
    THEN [ret |-> HG_FAIL, ub |-> FALSE, g |-> g]
    ELSE
    LET g1 == IF g.internal
              THEN [g EXCEPT !.bulk = NULL, !.internal = FALSE]
              ELSE g
        shared == hg_handler_na_class_g # NULL
                  \/ (g1.bulk # NULL /\ g1.cls = g1.bulk)
    IN  IF ~shared /\ fail = "context"
        THEN [ret |-> HG_FAIL, ub |-> FALSE, g |-> [g1 EXCEPT !.rcls = NULL]]
        ELSE [ret |-> HG_SUCCESS, ub |-> g1.map.null,
              g |-> [g1 EXCEPT !.rcls = NULL, !.ctx = NULL, !.map = NullMap,
                               !.cls = NULL]]

HG_Finalize(fail) ==
    /\ AppIdle
    /\ LET e == HG_Finalize_effect(HgState, fail)
       IN  /\ SetHg(e.g)
           /\ call' = Call("HG_Finalize", e.ret, NoReq, FALSE, 0)
           /\ crashed' \in Outcomes(e.ub)
           /\ reg_hist' = KeepHistory(e.g.map)
           /\ bulk_owner' = BulkOwner(e.g.bulk)
    /\ UNCHANGED <<reqvars, tagvars, ccivars, rcvvars, timevars, plugvars>>

\* The application initializes the bulk layer itself, before HG_Init.
HG_Bulk_init ==
    /\ AppIdle
    /\ hg_bulk_na_class_g = NULL
    /\ hg_na_class_g = NULL
    /\ hg_bulk_na_class_g' = NaClass
    /\ bulk_owner' = "app"
    /\ call' = Call("HG_Bulk_init", HG_SUCCESS, NoReq, FALSE, 0)
    /\ UNCHANGED <<hg_na_class_g, hg_context_g, hg_request_class_g,
                   hg_bulk_initialized_internal_g, hg_func_map_g,
                   hg_request_tag_g, hg_request_max_tag_g, reqvars, crashed,
                   tagvars, ccivars, rcvvars, timevars, reg_hist, plugvars>>

\* The application finalizes the bulk layer it initialized, after
\* HG_Finalize.
HG_Bulk_finalize ==
    /\ AppIdle
    /\ hg_bulk_na_class_g # NULL
    /\ hg_na_class_g = NULL
    /\ hg_bulk_na_class_g' = NULL
    /\ bulk_owner' = "none"
    /\ call' = Call("HG_Bulk_finalize", HG_SUCCESS, NoReq, FALSE, 0)
    /\ UNCHANGED <<hg_na_class_g, hg_context_g, hg_request_class_g,
                   hg_bulk_initialized_internal_g, hg_func_map_g,
                   hg_request_tag_g, hg_request_max_tag_g, reqvars, crashed,
                   tagvars, ccivars, rcvvars, timevars, reg_hist, plugvars>>

(***************************************************************************)
(* HG_Register, HG_Registered                                              *)
(***************************************************************************)
RegisterFails == {"none", "malloc_id", "malloc_info", "insert"}

\* A variant of HG_Register_effect without the test of hg_func_map_g.
HG_Register_effect_unchecked(map, func_name, fail) ==
    IF fail # "none"
    THEN [ret |-> 0, map |-> map]
    ELSE [ret |-> hg_hash_string(func_name),
          map |-> hg_hash_table_insert([map EXCEPT !.null = FALSE],
                      hg_hash_string(func_name),
                      [name |-> func_name, freed |-> FALSE])]

\* The effect of HG_Register(func_name, enc, dec) on the function map: the
\* id returned and the new map.  The entry records the name whose routines
\* it holds, and whether its key and value were freed.
HG_Register_effect(map, func_name, fail) ==
    IF map.null \/ fail # "none"
    THEN [ret |-> 0, map |-> map]
    ELSE
    LET id == hg_hash_string(func_name)
        inserted == hg_hash_table_insert(map, id,
                        [name |-> func_name, freed |-> FALSE])
    IN  [ret |-> id,
         map |-> IF id = 0
                 THEN [inserted EXCEPT !.tab[id].freed = TRUE]
                 ELSE inserted]

HG_Register(func_name, fail) ==
    /\ AppIdle
    /\ LET e == HG_Register_effect(hg_func_map_g, func_name, fail)
       IN  /\ hg_func_map_g' = e.map
           /\ call' = Call("HG_Register", "hg_id_t", NoReq, FALSE, e.ret)
           /\ reg_hist' = [reg_hist EXCEPT ![func_name] =
                              IF e.ret # 0 THEN "ok"
                              ELSE IF @ = "ok" THEN "ok" ELSE "failed"]
           /\ bulk_owner' = bulk_owner
    /\ UNCHANGED <<hg_na_class_g, hg_context_g, hg_request_class_g,
                   hg_bulk_initialized_internal_g, hg_request_tag_g,
                   hg_request_max_tag_g, hg_bulk_na_class_g,
                   reqvars, crashed, tagvars, ccivars, rcvvars, timevars, plugvars>>

\* A variant of HG_Registered_result that never writes the id.
HG_Registered_result_no_id(map, func_name, flag_ptr, found) ==
    IF map.null \/ flag_ptr = NULL
    THEN [ret |-> HG_FAIL, flag |-> FALSE, id |-> 0]
    ELSE [ret |-> HG_SUCCESS, flag |-> found # NoEntry, id |-> 0]

\* What HG_Registered(func_name, flag, id) returns and writes to *flag and
\* *id, `found` being the outcome of the lookup.
HG_Registered_result(map, func_name, flag_ptr, found) ==
    IF map.null \/ flag_ptr = NULL
    THEN [ret |-> HG_FAIL, flag |-> FALSE, id |-> 0]
    ELSE [ret |-> HG_SUCCESS, flag |-> found # NoEntry,
          id |-> IF found # NoEntry THEN hg_hash_string(func_name) ELSE 0]

HG_Registered(func_name, flag_ptr) ==
    /\ AppIdle
    /\ \E found \in (IF hg_func_map_g.null THEN {NoEntry}
                     ELSE hg_hash_table_lookup(hg_func_map_g,
                                               hg_hash_string(func_name))) :
         LET e == HG_Registered_result(hg_func_map_g, func_name, flag_ptr,
                                       found)
         IN  call' = Call("HG_Registered", e.ret, NoReq, e.flag, e.id)
    /\ UNCHANGED <<hgvars, reqvars, crashed, tagvars, ccivars, rcvvars, timevars, histvars, plugvars>>

(***************************************************************************)
(* struct hg_request                                                       *)
(***************************************************************************)
\* Addresses a request may be forwarded to.
NumAddr == 2

Addrs == 1..NumAddr

\* The address the requests are forwarded to.
FwdAddrs == {1}

\* Scaled-down endpoint->device->max_send_size: the value of
\* na_cci_msg_get_max_unexpected_size and na_cci_msg_get_max_expected_size.
MaxSendSize == 4

\* hg_proc_header_request_get_size, scaled down.
RequestHeaderSize == 2

\* Granularity of the overflow buffer the proc engine allocates.
ProcPageSize == 4

na_cci_msg_get_max_unexpected_size == MaxSendSize
na_cci_msg_get_max_expected_size == MaxSendSize

\* A struct hg_request.  mem: "none" (never allocated), "live" or "freed".
\* Pointers are NULL or a name; send_completed and recv_completed are the
\* flags of the two hg_request_object_t.  The other fields are history:
\*   addr, tag              the address and the tag HG_Forward posted with
\*                          (send_tag and recv_tag, its locals);
\*   sbuf, rbuf, xbuf, xh   the heap blocks behind send_buf, recv_buf,
\*                          extra_send_buf and extra_send_buf_handle:
\*                          "none", "alloc", "freed" or "freed_twice";
\*   n_send_complete, n_recv_complete   calls of hg_request_complete;
\*   n_send_cb, n_recv_cb               runs of the two callbacks;
\*   send_cb_ret, recv_cb_ret           callback_info->ret of the last run;
\*   first_cb                           the callback that ran first;
\*   in_size                the size of the encoding of in_struct (0: none);
\*   header_handle          the handle hg_proc_header_request_init was given.
NoRequest ==
    [mem |-> "none", id |-> 0, addr |-> 0, tag |-> 0,
     send_buf |-> NULL, send_buf_size |-> 0,
     extra_send_buf |-> NULL, extra_send_buf_size |-> 0,
     extra_send_buf_handle |-> NULL,
     send_request |-> NULL, send_completed |-> FALSE,
     recv_buf |-> NULL, recv_buf_size |-> 0,
     recv_request |-> NULL, recv_completed |-> FALSE,
     out_struct |-> NULL,
     sbuf |-> "none", rbuf |-> "none", xbuf |-> "none", xh |-> "none",
     n_send_complete |-> 0, n_recv_complete |-> 0,
     n_send_cb |-> 0, n_recv_cb |-> 0,
     send_cb_ret |-> "none", recv_cb_ret |-> "none", first_cb |-> "none",
     in_size |-> 0, header_handle |-> NULL]

\* free() of a heap block.
Free(block) ==
    IF block \in {"alloc", "live"} THEN "freed" ELSE "freed_twice"

(***************************************************************************)
(* hg_gen_request_tag, one caller                                          *)
(***************************************************************************)
\* hg_atomic_cas32(&hg_request_tag_g, hg_request_max_tag_g, 0) succeeds and
\* the tag is 0; or hg_atomic_incr32 returns the incremented counter.
hg_gen_request_tag(counter, max_tag) ==
    IF counter = max_tag
    THEN [tag |-> 0, counter |-> 0]
    ELSE [tag |-> counter + 1, counter |-> counter + 1]

(***************************************************************************)
(* hg_set_input                                                            *)
(***************************************************************************)
\* in_struct: NULL, or a structure whose encoding takes `size` bytes.
InStruct(size) == [null |-> FALSE, size |-> size]
NullStruct == [null |-> TRUE, size |-> 0]

\* A variant of hg_get_input_buf_size that leaves no space for the header.
hg_get_input_buf_size_no_header(q) == q.send_buf_size

\* hg_get_input_buf: *in_buf_size.
hg_get_input_buf_size(q) == q.send_buf_size - RequestHeaderSize

\* The proc engine after encoding `size` bytes into a buffer of in_buf_size
\* bytes: extra is the size of the overflow buffer it allocated (0: none),
\* and hg_proc_get_size the sum of the two buffer sizes.
hg_proc_encode(in_buf_size, size) ==
    LET extra == IF size <= in_buf_size THEN 0
                 ELSE ((size \div ProcPageSize) + 1) * ProcPageSize
    IN  [extra |-> extra, size |-> in_buf_size + extra]

SetInputFails == {"none", "proc_create", "encode", "bulk_create", "flush"}

\* The effect of hg_set_input(priv_request, in_struct) on the request q.
\* found: the outcome of the lookup of q.id in the function map.
hg_set_input(q, in_struct, found, fail) ==
    IF in_struct.null THEN [ret |-> HG_SUCCESS, q |-> q]
    ELSE IF found = NoEntry THEN [ret |-> HG_FAIL, q |-> q]
    ELSE IF fail = "proc_create" THEN [ret |-> HG_FAIL, q |-> q]
    ELSE IF fail = "encode" THEN [ret |-> HG_FAIL, q |-> q]
    ELSE
    LET proc == hg_proc_encode(hg_get_input_buf_size(q), in_struct.size)
        q0 == [q EXCEPT !.in_size = in_struct.size]
    IN  IF proc.size > q.send_buf_size
        THEN LET q1 == [q0 EXCEPT !.extra_send_buf = "extra_buf",
                                  !.extra_send_buf_size = proc.extra,
                                  !.xbuf = "alloc"]
             IN  IF fail = "bulk_create"
                 \* hg_proc_free releases the overflow buffer, which the
                 \* proc still owns.
                 THEN [ret |-> HG_FAIL, q |-> [q1 EXCEPT !.xbuf = Free(@)]]
                 ELSE LET q2 == [q1 EXCEPT
                                   !.extra_send_buf_handle = "bulk_handle",
                                   !.xh = "alloc"]
                      IN  IF fail = "flush"
                          THEN [ret |-> HG_FAIL, q |-> q2]
                          ELSE [ret |-> HG_SUCCESS, q |-> q2]
        ELSE IF fail = "flush" THEN [ret |-> HG_FAIL, q |-> q0]
        ELSE [ret |-> HG_SUCCESS, q |-> q0]

(***************************************************************************)
(* src/src/na/na_cci.c: operations and completion                          *)
(***************************************************************************)
\* A struct na_cci_op_id.  id names the allocation, arg is the callback's
\* argument; buf_size, actual_size and tag are info.recv_expected (or
\* info.recv_unexpected); written counts the bytes memcpy wrote to buf.
Op(id, type, arg, buf_size, tag) ==
    [id |-> id, type |-> type, arg |-> arg, completed |-> FALSE,
     buf_size |-> buf_size, actual_size |-> 0, tag |-> tag, written |-> 0]

\* na_cci_complete(op): the return code and, on success, the entry pushed
\* to the completion queue of the op's context.  callback_info->ret is the
\* NA_SUCCESS `ret` holds when the info is filled.
na_cci_complete(op, fail) ==
    LET done == [op EXCEPT !.completed = TRUE]
    IN  IF fail = "malloc"
        THEN [ret |-> NA_NOMEM_ERROR, queued |-> <<>>, op |-> done]
        ELSE IF op.type = "NA_CB_RECV_EXPECTED"
                /\ op.actual_size # op.buf_size
        THEN [ret |-> NA_SIZE_ERROR, queued |-> <<>>, op |-> done]
        ELSE IF fail = "completion_add"
        THEN [ret |-> NA_NOMEM_ERROR, queued |-> <<>>, op |-> done]
        ELSE [ret |-> NA_SUCCESS,
              queued |-> <<[op |-> done, ret |-> NA_SUCCESS]>>,
              op |-> done]

\* A variant of FirstWithTag that takes the first element whatever its tag.
FirstInQueue(q, tag) == IF q = <<>> THEN 0 ELSE 1

\* Index of the first element of the queue q with the tag, 0 if none
\* (TAILQ_FOREACH with a tag comparison).
FirstWithTag(q, tag) ==
    IF \E i \in 1..Len(q) : q[i].tag = tag
    THEN CHOOSE i \in 1..Len(q) :
             /\ q[i].tag = tag
             /\ \A j \in 1..(i - 1) : q[j].tag # tag
    ELSE 0

\* TAILQ_REMOVE of the i-th element.
RemoveAt(q, i) == [j \in 1..(Len(q) - 1) |-> IF j < i THEN q[j] ELSE q[j + 1]]

\* na_cci_msg_recv_expected(buf, buf_size, source, tag) on the queues rx_q
\* (source->rxs) and early_q (source->early): the return code, the queues
\* afterwards, what was pushed to the completion queue, and whether *op_id
\* was assigned; hit is the index of the early entry that was delivered (0:
\* none) and len the length given to memcpy.
na_cci_msg_recv_expected(rx_q, early_q, op, fail) ==
    IF fail = "calloc"
    THEN [ret |-> NA_NOMEM_ERROR, rxs |-> rx_q, early |-> early_q,
          queued |-> <<>>, assigned |-> FALSE, hit |-> 0, len |-> 0]
    ELSE
    LET i == FirstWithTag(early_q, op.tag)
    IN  IF i # 0
        THEN LET len == IF op.buf_size > early_q[i].buf_size
                        THEN op.buf_size ELSE early_q[i].buf_size
                 filled == [op EXCEPT !.actual_size = len, !.written = len]
                 c == na_cci_complete(filled, fail)
             IN  [ret |-> c.ret, rxs |-> rx_q,
                  early |-> RemoveAt(early_q, i),
                  queued |-> c.queued, assigned |-> FALSE, hit |-> i,
                  len |-> len]
        ELSE [ret |-> NA_SUCCESS, rxs |-> Append(rx_q, op),
              early |-> early_q, queued |-> <<>>, assigned |-> TRUE,
              hit |-> 0, len |-> 0]

SendFails == {"none", "malloc", "cci_sendv"}

\* na_cci_msg_send_unexpected and na_cci_msg_send_expected: the return code
\* and whether cci_sendv took the message.  The second `if (rc)` is not
\* reached with rc # 0, so nothing is completed here.
na_cci_msg_send(op, fail) ==
    IF fail = "malloc" THEN [ret |-> NA_NOMEM_ERROR, sent |-> {}]
    ELSE IF fail = "cci_sendv" THEN [ret |-> NA_PROTOCOL_ERROR, sent |-> {}]
    ELSE [ret |-> NA_SUCCESS, sent |-> {op}]

(***************************************************************************)
(* HG_Forward                                                              *)
(***************************************************************************)
ForwardFails ==
    {"none", "malloc_request", "alloc_send_buf", "alloc_recv_buf", "header",
     "recv_calloc", "send_malloc", "cci_sendv"} \cup (SetInputFails \ {"none"})

\* The `done:` label of HG_Forward with ret # HG_SUCCESS: every buffer whose
\* pointer is not NULL is freed, then the request.
HG_Forward_unwind(q) ==
    [q EXCEPT
       !.sbuf = IF q.send_buf # NULL THEN Free(@) ELSE @,
       !.send_buf = NULL,
       !.rbuf = IF q.recv_buf # NULL THEN Free(@) ELSE @,
       !.recv_buf = NULL,
       !.xbuf = IF q.extra_send_buf # NULL THEN Free(@) ELSE @,
       !.extra_send_buf = NULL,
       !.xh = IF q.extra_send_buf_handle # NULL THEN Free(@) ELSE @,
       !.extra_send_buf_handle = NULL,
       !.mem = Free(q.mem)]

\* A freed struct hg_request: its fields are no longer state; the history
\* of its heap blocks and callbacks is kept.
Released(q) ==
    [NoRequest EXCEPT
       !.mem = q.mem, !.sbuf = q.sbuf, !.rbuf = q.rbuf, !.xbuf = q.xbuf,
       !.xh = q.xh, !.n_send_complete = q.n_send_complete,
       !.n_recv_complete = q.n_recv_complete, !.n_send_cb = q.n_send_cb,
       !.n_recv_cb = q.n_recv_cb, !.send_cb_ret = q.send_cb_ret,
       !.recv_cb_ret = q.recv_cb_ret, !.first_cb = q.first_cb]

\* One call of an NA function by HG_Forward.
NaCall(fn, tag, ret) == [fn |-> fn, tag |-> tag, ret |-> ret]

\* A variant of HG_Forward_post that posts the send before the receive.
HG_Forward_post_send_first(rx_q, early_q, r, q, fail) ==
    LET sp == na_cci_msg_send(
                  Op(0, "NA_CB_SEND_UNEXPECTED", r, q.send_buf_size, q.tag),
                  IF fail = "send_malloc" THEN "malloc"
                  ELSE IF fail = "cci_sendv" THEN "cci_sendv" ELSE "none")
        c1 == <<NaCall("NA_Msg_send_unexpected", q.tag, sp.ret)>>
        rp == na_cci_msg_recv_expected(rx_q, early_q,
                  Op(0, "NA_CB_RECV_EXPECTED", r, q.recv_buf_size, q.tag),
                  IF fail = "recv_calloc" THEN "calloc" ELSE "none")
    IN  IF sp.ret # NA_SUCCESS
        THEN [ret |-> sp.ret, rxs |-> rx_q, early |-> early_q,
              queued |-> <<>>, sent |-> {}, calls |-> c1]
        ELSE [ret |-> rp.ret, rxs |-> rp.rxs, early |-> rp.early,
              queued |-> rp.queued, sent |-> sp.sent,
              calls |-> Append(c1, NaCall("NA_Msg_recv_expected", q.tag,
                                          rp.ret))]

\* The two posts of HG_Forward for the request q (slot r), whose tag was
\* drawn: NA_Msg_recv_expected, then, unless it failed, NA_Msg_send_unexpected.
\* ret is the code of the last call made, calls the log of the calls.
HG_Forward_post(rx_q, early_q, r, q, fail) ==
    LET rp == na_cci_msg_recv_expected(rx_q, early_q,
                  Op(0, "NA_CB_RECV_EXPECTED", r, q.recv_buf_size, q.tag),
                  IF fail = "recv_calloc" THEN "calloc" ELSE "none")
        c1 == <<NaCall("NA_Msg_recv_expected", q.tag, rp.ret)>>
        sp == na_cci_msg_send(
                  Op(0, "NA_CB_SEND_UNEXPECTED", r, q.send_buf_size, q.tag),
                  IF fail = "send_malloc" THEN "malloc"
                  ELSE IF fail = "cci_sendv" THEN "cci_sendv" ELSE "none")
    IN  IF rp.ret # NA_SUCCESS
        THEN [ret |-> rp.ret, rxs |-> rp.rxs, early |-> rp.early,
              queued |-> rp.queued, sent |-> {}, calls |-> c1]
        ELSE [ret |-> sp.ret, rxs |-> rp.rxs, early |-> rp.early,
              queued |-> rp.queued, sent |-> sp.sent,
              calls |-> Append(c1, NaCall("NA_Msg_send_unexpected", q.tag,
                                          sp.ret))]

\* What HG_Forward did: ret, the request allocated (NoReq: none), the NA
\* calls in the order they were made, and ub: free() was called on a field
\* that was never written, or the NULL function map was read.
Fwd(ret, r, na_calls, ub) ==
    [ret |-> ret, r |-> r, na_calls |-> na_calls, ub |-> ub]

NoFwd == Fwd("none", NoReq, <<>>, FALSE)

\* The effect of HG_Forward(addr, id, in_struct, out_struct, request) with
\* the request allocated in slot r, on the state g, on the queues rx_q and
\* early_q of addr and on the sends in flight.  The request is malloc'ed,
\* not zeroed: when a buffer allocation fails, `done:` reads the fields that
\* were never written.
HG_Forward_effect(g, rx_q, early_q, r, addr, id, in_struct, out_struct, found, fail) ==
    LET same == [q |-> NoRequest, tag |-> g.tag, rxs |-> rx_q,
                 early |-> early_q, sent |-> {}, queued |-> <<>>,
                 f |-> Fwd(HG_FAIL, NoReq, <<>>, FALSE)]
    IN
    IF g.cls = NULL \/ fail = "malloc_request"
    THEN same
    ELSE
    LET q1 == [NoRequest EXCEPT
                 !.mem = "live", !.id = id, !.addr = addr,
                 !.send_buf_size = na_cci_msg_get_max_unexpected_size]
    IN
    IF fail = "alloc_send_buf"
    THEN [same EXCEPT !.q = HG_Forward_unwind(q1),
                       !.f = Fwd(HG_FAIL, r, <<>>, TRUE)]
    ELSE
    LET q2 == [q1 EXCEPT
                 !.send_buf = "send_buf", !.sbuf = "alloc",
                 !.recv_buf_size = na_cci_msg_get_max_expected_size]
    IN
    IF fail = "alloc_recv_buf"
    THEN [same EXCEPT !.q = HG_Forward_unwind(q2),
                       !.f = Fwd(HG_FAIL, r, <<>>, TRUE)]
    ELSE
    LET q3 == [q2 EXCEPT
                 !.recv_buf = "recv_buf", !.rbuf = "alloc",
                 !.out_struct = out_struct,
                 !.send_request = "send_request",
                 !.recv_request = "recv_request"]
        si == hg_set_input(q3, in_struct, found,
                  IF fail \in SetInputFails THEN fail ELSE "none")
        ub == g.map.null /\ ~in_struct.null
    IN
    IF si.ret # HG_SUCCESS \/ fail = "header"
    THEN [same EXCEPT !.q = HG_Forward_unwind(si.q),
                       !.f = Fwd(HG_FAIL, r, <<>>, ub)]
    ELSE
    LET t == hg_gen_request_tag(g.tag, g.max)
        q4 == [si.q EXCEPT !.tag = t.tag,
                           !.header_handle = si.q.extra_send_buf_handle]
        p == HG_Forward_post(rx_q, early_q, r, q4, fail)
        posted == [same EXCEPT !.tag = t.counter, !.rxs = p.rxs,
                               !.early = p.early, !.queued = p.queued,
                               !.sent = p.sent]
    IN
    IF p.ret # NA_SUCCESS
    THEN [posted EXCEPT !.q = HG_Forward_unwind(q4),
                       !.f = Fwd(HG_FAIL, r, p.calls, ub)]
    ELSE [posted EXCEPT !.q = q4,
                       !.f = Fwd(HG_SUCCESS, r, p.calls, ub)]

\* The slot the next malloc of a struct hg_request returns; 0 when the
\* model's slots are used up.
NextSlot ==
    IF \E r \in Reqs : req[r].mem = "none"
    THEN CHOOSE r \in Reqs :
             /\ req[r].mem = "none"
             /\ \A p \in 1..(r - 1) : req[p].mem # "none"
    ELSE 0

FwdIds == {1, 2}

InStructs ==
    {NullStruct, InStruct(MaxSendSize - RequestHeaderSize),
     InStruct(MaxSendSize - RequestHeaderSize + 1)}

OutStructs == {NULL, "out_struct"}

HG_Forward(addr, id, in_struct, out_struct, fail) ==
    /\ AppIdle
    /\ NextSlot # 0 \/ hg_na_class_g = NULL
    /\ \E found \in (IF hg_func_map_g.null THEN {NoEntry}
                     ELSE hg_hash_table_lookup(hg_func_map_g, id)) :
         \E e \in {HG_Forward_effect(HgState, rxs[addr], early[addr],
                        NextSlot, addr, id, in_struct, out_struct, found,
                        fail)} :
             /\ req' = IF e.f.r = NoReq THEN req
                       ELSE [req EXCEPT ![e.f.r] =
                                IF e.q.mem = "live" THEN e.q
                                ELSE Released(e.q)]
             /\ hg_request_tag_g' = e.tag
             /\ rxs' = [rxs EXCEPT ![addr] = e.rxs]
             /\ early' = [early EXCEPT ![addr] = e.early]
             /\ sends' = sends \cup e.sent
             /\ completion_queue' = completion_queue \o e.queued
             /\ fwd' = e.f
             /\ call' = Call("HG_Forward", e.f.ret,
                             IF e.f.ret = HG_SUCCESS THEN e.f.r ELSE NoReq,
                             FALSE, 0)
             /\ crashed' \in Outcomes(e.f.ub)
    /\ UNCHANGED <<hg_na_class_g, hg_context_g, hg_request_class_g,
                   hg_bulk_initialized_internal_g, hg_func_map_g,
                   hg_request_max_tag_g, hg_bulk_na_class_g,
                   wait, status, tagvars, ccivars, rcvvars, timevars, histvars, plugvars>>

(***************************************************************************)
(* hg_send_input_cb, hg_recv_output_cb                                     *)
(***************************************************************************)
\* hg_request_complete(send_request)
hg_request_complete_send(q) ==
    [q EXCEPT !.send_completed = TRUE, !.n_send_complete = @ + 1]

\* hg_request_complete(recv_request)
hg_request_complete_recv(q) ==
    [q EXCEPT !.recv_completed = TRUE, !.n_recv_complete = @ + 1]

\* A variant of hg_send_input_cb that completes the future and keeps the
\* send buffer.
hg_send_input_cb_keeps_buf(q, ret) ==
    LET q1 == [q EXCEPT !.n_send_cb = @ + 1, !.send_cb_ret = ret,
                        !.first_cb = IF @ = "none" THEN "send" ELSE @]
    IN  IF ret # NA_SUCCESS THEN q1 ELSE hg_request_complete_send(q1)

\* A variant of hg_send_input_cb that frees the extra buffer and its handle
\* with the send buffer.
hg_send_input_cb_frees_extra(q, ret) ==
    LET q1 == [q EXCEPT !.n_send_cb = @ + 1, !.send_cb_ret = ret,
                        !.first_cb = IF @ = "none" THEN "send" ELSE @]
    IN  IF ret # NA_SUCCESS THEN q1
        ELSE hg_request_complete_send(
                 [q1 EXCEPT
                    !.sbuf = IF q.send_buf # NULL THEN Free(@) ELSE @,
                    !.send_buf = NULL,
                    !.send_buf_size = 0,
                    !.xbuf = IF q.extra_send_buf # NULL THEN Free(@) ELSE @,
                    !.extra_send_buf = NULL,
                    !.extra_send_buf_size = 0,
                    !.xh = IF q.extra_send_buf_handle # NULL
                           THEN Free(@) ELSE @,
                    !.extra_send_buf_handle = NULL])

\* A variant of hg_send_input_cb that completes the future with the send
\* buffer freed but its pointer and size left in the request.
hg_send_input_cb_keeps_pointer(q, ret) ==
    LET q1 == [q EXCEPT !.n_send_cb = @ + 1, !.send_cb_ret = ret,
                        !.first_cb = IF @ = "none" THEN "send" ELSE @]
    IN  IF ret # NA_SUCCESS THEN q1
        ELSE hg_request_complete_send(
                 [q1 EXCEPT
                    !.sbuf = IF q.send_buf # NULL THEN Free(@) ELSE @])

\* hg_send_input_cb(callback_info) on the request q = callback_info->arg,
\* with ret = callback_info->ret.
hg_send_input_cb(q, ret) ==
    LET q1 == [q EXCEPT !.n_send_cb = @ + 1, !.send_cb_ret = ret,
                        !.first_cb = IF @ = "none" THEN "send" ELSE @]
    IN  IF ret # NA_SUCCESS THEN q1
        ELSE hg_request_complete_send(
                 [q1 EXCEPT
                    !.sbuf = IF q.send_buf # NULL THEN Free(@) ELSE @,
                    !.send_buf = NULL,
                    !.send_buf_size = 0])

GetOutputFails == {"none", "proc_create", "decode", "flush"}

\* hg_get_output(priv_request, out_struct): the return code.  found: the
\* outcome of the lookup of the request's id in the function map.
hg_get_output(q, found, fail) ==
    IF q.out_struct = NULL THEN HG_SUCCESS
    ELSE IF found = NoEntry THEN HG_FAIL
    ELSE IF fail \in {"proc_create", "decode", "flush"} THEN HG_FAIL
    ELSE HG_SUCCESS

RecvCbFails == {"header_decode", "header_verify"} \cup GetOutputFails

\* A variant of hg_recv_output_cb that completes the receive future and
\* leaves the receive buffer in place.
hg_recv_output_cb_keeps_recv_buf(q, ret, found, fail) ==
    LET q1 == [q EXCEPT !.n_recv_cb = @ + 1, !.recv_cb_ret = ret,
                        !.first_cb = IF @ = "none" THEN "recv" ELSE @]
    IN  IF ret # NA_SUCCESS THEN q1
        ELSE
        LET q2 == [q1 EXCEPT
                     !.xbuf = IF q.extra_send_buf # NULL THEN Free(@) ELSE @,
                     !.extra_send_buf = NULL,
                     !.extra_send_buf_size = 0,
                     !.xh = IF q.extra_send_buf_handle # NULL
                            THEN Free(@) ELSE @,
                     !.extra_send_buf_handle = NULL]
        IN  IF fail \in {"header_decode", "header_verify"} THEN q2
            ELSE IF hg_get_output(q2, found, fail) # HG_SUCCESS THEN q2
            ELSE hg_request_complete_recv(q2)

\* hg_recv_output_cb(callback_info) on the request q = callback_info->arg,
\* with ret = callback_info->ret.
hg_recv_output_cb(q, ret, found, fail) ==
    LET q1 == [q EXCEPT !.n_recv_cb = @ + 1, !.recv_cb_ret = ret,
                        !.first_cb = IF @ = "none" THEN "recv" ELSE @]
    IN  IF ret # NA_SUCCESS THEN q1
        ELSE
        LET q2 == [q1 EXCEPT
                     !.xbuf = IF q.extra_send_buf # NULL THEN Free(@) ELSE @,
                     !.extra_send_buf = NULL,
                     !.extra_send_buf_size = 0,
                     !.xh = IF q.extra_send_buf_handle # NULL
                            THEN Free(@) ELSE @,
                     !.extra_send_buf_handle = NULL]
        IN  IF fail \in {"header_decode", "header_verify"} THEN q2
            ELSE IF hg_get_output(q2, found, fail) # HG_SUCCESS THEN q2
            ELSE hg_request_complete_recv(
                     [q2 EXCEPT
                        !.rbuf = IF q.recv_buf # NULL THEN Free(@) ELSE @,
                        !.recv_buf = NULL,
                        !.recv_buf_size = 0])

\* Result codes a plugin hands to a callback in callback_info->ret.
CbRets == {NA_SUCCESS, NA_PROTOCOL_ERROR}

\* The NA layer's trigger runs the callback of the send of request r, which
\* the transport has completed with `ret`.
NA_Trigger_send(r, ret) ==
    /\ ~crashed
    /\ \E op \in sends :
         /\ op.arg = r
         /\ sends' = sends \ {op}
    /\ req[r].mem = "live"
    /\ req' = [req EXCEPT ![r] = hg_send_input_cb(@, ret)]
    /\ UNCHANGED <<hgvars, wait, status, fwd, rxs, early, completion_queue,
                   call, crashed, tagvars, ccivars, rcvvars, timevars, histvars, plugvars>>

\* A message with the tag arrives from addr and matches the first receive
\* posted on addr with that tag; the NA layer's trigger runs its callback
\* with `ret`.  The callback of a receive whose request HG_Forward has
\* freed writes to freed memory.
NA_Trigger_recv(addr, tag, ret, fail) ==
    /\ ~crashed
    /\ FirstWithTag(rxs[addr], tag) # 0
    /\ LET i == FirstWithTag(rxs[addr], tag)
           r == rxs[addr][i].arg
       IN  /\ rxs' = [rxs EXCEPT ![addr] = RemoveAt(@, i)]
           /\ IF req[r].mem = "live"
              THEN /\ \E found \in (IF hg_func_map_g.null THEN {NoEntry}
                                    ELSE hg_hash_table_lookup(hg_func_map_g,
                                                              req[r].id)) :
                        req' = [req EXCEPT ![r] =
                                  hg_recv_output_cb(@, ret, found, fail)]
                   /\ crashed' = crashed
              ELSE /\ req' = req
                   /\ crashed' \in Outcomes(TRUE)
    /\ UNCHANGED <<hgvars, wait, status, fwd, early, sends, completion_queue,
                   call, tagvars, ccivars, rcvvars, timevars, histvars, plugvars>>

(***************************************************************************)
(* HG_Wait, HG_Wait_all                                                    *)
(***************************************************************************)
\* The call of HG_Wait or HG_Wait_all in progress.  stage: "idle" (none),
\* "send" and "recv" (HG_Wait is blocked in hg_request_wait on the send or
\* on the receive future of request r), "loop" (HG_Wait_all is between two
\* iterations).  status_ptr: the status argument of HG_Wait is not NULL.
\* all: HG_Wait was called by HG_Wait_all; todo: array_of_requests[i..];
\* ret: the ret of HG_Wait_all.  both: when HG_Wait was entered, the two
\* callbacks of r had completed their futures.
Waiting(stage, r, status_ptr, all, todo, ret) ==
    [stage |-> stage, r |-> r, status_ptr |-> status_ptr, all |-> all,
     todo |-> todo, ret |-> ret, both |-> FALSE]

\* The two callbacks of the request q have completed their futures.
BothCompleted(q) == q.n_send_complete = 1 /\ q.n_recv_complete = 1

NotWaiting == Waiting("idle", NoReq, FALSE, FALSE, <<>>, HG_SUCCESS)

\* Requests the application holds a handle of, and the NULL handle.
Handles == {NoReq} \cup {r \in Reqs : req[r].mem = "live"}

\* A variant of hg_status with || in place of &&.
hg_status_either(q) ==
    IF q.send_request = NULL \/ q.recv_request = NULL THEN 1 ELSE 0

\* *status = (!send_request && !recv_request), as 1 or 0.
hg_status(q) == IF q.send_request = NULL /\ q.recv_request = NULL THEN 1 ELSE 0

\* The first future of q HG_Wait blocks on: the stage it enters.
HG_Wait_stage(q) ==
    IF q.send_request # NULL THEN "send"
    ELSE IF q.recv_request # NULL THEN "recv"
    ELSE "done"

\* The `done:` label of HG_Wait on request r (in state q) with return code
\* ret: *status is written, and HG_Wait returns to the application or to
\* the loop of HG_Wait_all.
HG_Wait_done(w, r, q, ret) ==
    /\ status' = IF w.status_ptr /\ r # NoReq
                 THEN [status EXCEPT ![r] = hg_status(q)]
                 ELSE status
    /\ IF w.all
       THEN /\ wait' = [w EXCEPT !.stage = "loop", !.r = NoReq, !.ret = ret,
                                 !.both = FALSE]
            /\ call' = call
       ELSE /\ wait' = NotWaiting
            /\ call' = Call("HG_Wait", ret, r, w.status_ptr, 0)

\* HG_Wait(request, timeout, status) from its entry to its first
\* hg_request_wait, or to its return.  w: the call in progress.
HG_Wait_enter(w, r) ==
    LET q == IF r = NoReq THEN NoRequest ELSE req[r]
    IN  IF hg_na_class_g = NULL \/ r = NoReq
        THEN HG_Wait_done(w, r, q, HG_FAIL)
        ELSE IF HG_Wait_stage(q) = "done"
        THEN HG_Wait_done(w, r, q, HG_SUCCESS)
        ELSE /\ wait' = [w EXCEPT !.stage = HG_Wait_stage(q), !.r = r,
                                  !.both = BothCompleted(q)]
             /\ status' = status
             /\ call' = call

HG_Wait(r, status_ptr) ==
    /\ AppIdle
    /\ r \in Handles
    /\ HG_Wait_enter(Waiting("idle", r, status_ptr, FALSE, <<>>, HG_SUCCESS),
                     r)
    /\ UNCHANGED <<hgvars, req, fwd, navars, crashed, tagvars, ccivars, rcvvars, timevars, histvars, plugvars>>

\* hg_request_wait(send_request, timeout, &flag) returns, after the
\* timeout or because the future was completed: flag tells which.  A set
\* flag destroys the future; HG_Wait goes on to the receive future.
HG_Wait_send_return(util_fail) ==
    /\ ~crashed
    /\ wait.stage = "send"
    /\ LET r == wait.r
           flag == req[r].send_completed
           q == IF flag /\ ~util_fail
                THEN [req[r] EXCEPT !.send_request = NULL]
                ELSE req[r]
       IN  /\ req' = [req EXCEPT ![r] = q]
           /\ IF util_fail
              THEN HG_Wait_done(wait, r, q, HG_FAIL)
              ELSE IF q.recv_request # NULL
              THEN /\ wait' = [wait EXCEPT !.stage = "recv"]
                   /\ status' = status
                   /\ call' = call
              ELSE HG_Wait_done(wait, r, q, HG_SUCCESS)
    /\ UNCHANGED <<hgvars, fwd, navars, crashed, tagvars, ccivars, rcvvars, timevars, histvars, plugvars>>

\* hg_request_wait(recv_request, remaining, &flag) returns.
HG_Wait_recv_return(util_fail) ==
    /\ ~crashed
    /\ wait.stage = "recv"
    /\ LET r == wait.r
           flag == req[r].recv_completed
           q == IF flag /\ ~util_fail
                THEN [req[r] EXCEPT !.recv_request = NULL]
                ELSE req[r]
       IN  /\ req' = [req EXCEPT ![r] = q]
           /\ HG_Wait_done(wait, r, q,
                           IF util_fail THEN HG_FAIL ELSE HG_SUCCESS)
    /\ UNCHANGED <<hgvars, fwd, navars, crashed, tagvars, ccivars, rcvvars, timevars, histvars, plugvars>>

\* Arrays of requests HG_Wait_all is called with (count = Len).
WaitArrays == {<<>>} \cup {<<r>> : r \in Handles}
              \cup {<<r, p>> : r \in Handles \ {NoReq}, p \in Handles}

\* HG_Wait_all(count, array_of_requests, timeout, array_of_statuses) up to
\* its loop.
HG_Wait_all(array) ==
    /\ AppIdle
    /\ array \in WaitArrays
    /\ IF hg_na_class_g = NULL
       THEN /\ call' = Call("HG_Wait_all", HG_FAIL, NoReq, FALSE, 0)
            /\ wait' = wait
       ELSE /\ call' = call
            /\ wait' = Waiting("loop", NoReq, TRUE, TRUE, array, HG_SUCCESS)
    /\ UNCHANGED <<hgvars, req, status, fwd, navars, crashed, tagvars,
                   ccivars, rcvvars, timevars, histvars, plugvars>>

\* One test of `i < count` in HG_Wait_all: the next HG_Wait is entered, or
\* HG_Wait_all returns the ret of the last one.
HG_Wait_all_next ==
    /\ ~crashed
    /\ wait.stage = "loop"
    /\ IF wait.todo = <<>>
       THEN /\ call' = Call("HG_Wait_all", wait.ret, NoReq, FALSE, 0)
            /\ wait' = NotWaiting
            /\ status' = status
       ELSE HG_Wait_enter([wait EXCEPT !.todo = Tail(@)], Head(wait.todo))
    /\ UNCHANGED <<hgvars, req, fwd, navars, crashed, tagvars, ccivars, rcvvars, timevars, histvars, plugvars>>

(***************************************************************************)
(* HG_Request_free                                                         *)
(***************************************************************************)
RequestFreeFails == {"none", "proc_create", "decode"}

\* A variant of HG_Request_free_effect that tests send_request only.
HG_Request_free_effect_send_only(g, r, q, found, fail) ==
    IF g.cls = NULL \/ r = NoReq \/ q.send_request # NULL \/ found = NoEntry
    THEN [ret |-> HG_FAIL, q |-> q, ub |-> FALSE]
    ELSE [ret |-> HG_SUCCESS, q |-> Released([q EXCEPT !.mem = Free(@)]),
          ub |-> FALSE]

\* The effect of HG_Request_free(request) on the request q (NoRequest for
\* the NULL handle r = NoReq), found being the outcome of the lookup of
\* q.id.  ub: the NULL function map was read.
HG_Request_free_effect(g, r, q, found, fail) ==
    IF g.cls = NULL \/ r = NoReq
    THEN [ret |-> HG_FAIL, q |-> q, ub |-> FALSE]
    ELSE IF q.send_request # NULL \/ q.recv_request # NULL
    THEN [ret |-> HG_FAIL, q |-> q, ub |-> FALSE]
    ELSE IF found = NoEntry
    THEN [ret |-> HG_FAIL, q |-> q, ub |-> g.map.null]
    ELSE IF q.out_struct # NULL /\ fail = "proc_create"
    THEN [ret |-> HG_FAIL, q |-> q, ub |-> FALSE]
    ELSE [ret |-> IF q.out_struct # NULL /\ fail = "decode"
                  THEN HG_FAIL ELSE HG_SUCCESS,
          q |-> Released([q EXCEPT !.mem = Free(@)]),
          ub |-> FALSE]

HG_Request_free(r, fail) ==
    /\ AppIdle
    /\ r \in Handles
    /\ LET q == IF r = NoReq THEN NoRequest ELSE req[r]
       IN  \E found \in (IF hg_func_map_g.null THEN {NoEntry}
                         ELSE hg_hash_table_lookup(hg_func_map_g, q.id)) :
             LET e == HG_Request_free_effect(HgState, r, q, found, fail)
             IN  /\ req' = IF r = NoReq THEN req
                           ELSE [req EXCEPT ![r] = e.q]
                 /\ call' = Call("HG_Request_free", e.ret, r, FALSE, 0)
                 /\ crashed' \in Outcomes(e.ub)
    /\ UNCHANGED <<hgvars, wait, status, fwd, navars, tagvars, ccivars, rcvvars, timevars, histvars, plugvars>>

(***************************************************************************)
(* Spec: the RPC engine                                                    *)
(***************************************************************************)
Threads == 1..MaxThreads

\* The variables of SpecTag and of SpecCCI before any of their steps.
TagIdle ==
    /\ tpc = [t \in Threads |-> "idle"]
    /\ ttag = [t \in Threads |-> 0]
    /\ tdraws = [t \in Threads |-> 0]

CCIIdle ==
    /\ nops = 0
    /\ events = <<>>
    /\ handled = {}
    /\ cb_count = [i \in 1..MaxOps |-> 0]
    /\ na_ret = "none"

\* No struct na_cci_op_id, and no message.  A message is what the
\* CCI_EVENT_RECV of its arrival carries: id numbers the arrivals, expect is
\* msg->send.expect, addr the na_cci_addr of the connection, tag
\* msg->send.tag and len the payload length event->recv.len -
\* sizeof(msg->size).
NoOp == Op(0, "none", 0, 0, 0)

Msg(id, expect, addr, tag, len) ==
    [id |-> id, expect |-> expect, addr |-> addr, tag |-> tag, len |-> len]

NoMsg == Msg(0, FALSE, 0, 0, 0)

\* The receive paths of the plugin before any receive is posted and any
\* message arrives.
RecvIdle ==
    /\ unexpected_msg_queue = <<>>
    /\ unexpected_op_queue = <<>>
    /\ nmsgs = 0
    /\ posts = <<>>
    /\ matched = <<>>
    /\ post_pc = [pc |-> "idle", op |-> NoOp]
    /\ prog_pc = [pc |-> "idle", msg |-> NoMsg]

\* The timeouts of a call of HG_Wait: pc is "none" (no call), "entry" (the
\* call was made with `timeout`, the wait on send_request will take
\* `elapsed` milliseconds) or "recv" (hg_request_wait was called on
\* recv_request with recv_timeout).
WaitTime(pc, timeout, elapsed, recv_timeout) ==
    [pc |-> pc, timeout |-> timeout, elapsed |-> elapsed,
     recv_timeout |-> recv_timeout]

\* Requests in the arrays given to HG_Wait_all in SpecWaitAll.
NumWaitReqs == 2

\* The futures of a request as a successful HG_Forward leaves them.
Forwarded ==
    [send_request |-> "send_request", recv_request |-> "recv_request"]

\* A call of HG_Wait_all(count, array_of_requests, timeout,
\* array_of_statuses): pc is "idle" (no call), "loop" or "returned"; i is
\* the loop variable (from 1), elapsed the time the calls of HG_Wait made
\* so far took, calls the log of these calls, statuses the array of
\* statuses (-1: not written), ret the local ret and reqs the requests the
\* handles in the array stand for.
WaitAllIdle ==
    [pc |-> "idle", array |-> <<>>, timeout |-> 0, i |-> 0, elapsed |-> 0,
     calls |-> <<>>, statuses |-> <<>>, ret |-> "none",
     reqs |-> [r \in 1..NumWaitReqs |-> Forwarded]]

TimeIdle ==
    /\ tw = WaitTime("none", 0, 0, 0)
    /\ wa = WaitAllIdle

\* A call of na_cci_progress: pc is "idle" (no call), "poll" (the loop is
\* about to call cci_get_event) or "return"; timeout is the argument and
\* remaining the local `remaining`, both in milliseconds; ret is the local
\* `ret`, polls the calls of cci_get_event made and nhandled the events
\* dispatched to a handler.
Progress(pc, timeout, remaining, ret, polls, nhandled) ==
    [pc |-> pc, timeout |-> timeout, remaining |-> remaining, ret |-> ret,
     polls |-> polls, nhandled |-> nhandled]

ProgressIdle == Progress("idle", 0, 0, "none", 0, 0)

\* struct na_cci_mem_handle: the transport registration h, the address
\* base, the size and the access attribute attr.
MemHandle(h, base, size, attr) ==
    [h |-> h, base |-> base, size |-> size, attr |-> attr]

\* mh: pc is "none" before na_cci_mem_handle_create, "created" while the
\* handle exists, "serialized" after na_cci_mem_handle_serialize returned
\* and "deserialized" after na_cci_mem_handle_deserialize returned; handle
\* is the handle, buf the buffer handed to the two calls, ret the code of
\* the last call, has_out whether *mem_handle was written by
\* na_cci_mem_handle_deserialize and out the handle written.
Mem(pc, handle, buf, ret, has_out, out) ==
    [pc |-> pc, handle |-> handle, buf |-> buf, ret |-> ret,
     has_out |-> has_out, out |-> out]

NoMem == Mem("none", MemHandle(0, 0, 0, 0), <<>>, "none", FALSE,
             MemHandle(0, 0, 0, 0))

\* No memory handle was created.
MemIdle == mh = NoMem

\* The plugin before any call of na_cci_progress and of na_cci_cancel.
PlugIdle ==
    /\ pg = ProgressIdle
    /\ cancelled = {}
    /\ MemIdle

\* The process before HG_Init: the globals as their initializers leave them.
Init ==
    /\ hg_na_class_g = NULL
    /\ hg_context_g = NULL
    /\ hg_request_class_g = NULL
    /\ hg_bulk_initialized_internal_g = FALSE
    /\ hg_func_map_g = NullMap
    /\ hg_request_tag_g = 0
    /\ hg_request_max_tag_g = 0
    /\ hg_bulk_na_class_g = NULL
    /\ req = [r \in Reqs |-> NoRequest]
    /\ wait = NotWaiting
    /\ status = [r \in Reqs |-> -1]
    /\ call = NoCall
    /\ fwd = NoFwd
    /\ crashed = FALSE
    /\ rxs = [a \in Addrs |-> <<>>]
    /\ early = [a \in Addrs |-> <<>>]
    /\ sends = {}
    /\ completion_queue = <<>>
    /\ TagIdle
    /\ CCIIdle
    /\ RecvIdle
    /\ TimeIdle
    /\ HistIdle
    /\ PlugIdle

\* The engine with its requests: it is initialized without failure and one
\* procedure is registered.
Next ==
    \/ HG_Init(NaClass, "none")
    \/ HG_Register("rpc_a", "none")
    \/ \E addr \in FwdAddrs, id \in FwdIds, in_struct \in InStructs,
          out_struct \in OutStructs, fail \in ForwardFails :
         HG_Forward(addr, id, in_struct, out_struct, fail)
    \/ \E r \in Reqs, ret \in CbRets : NA_Trigger_send(r, ret)
    \/ \E addr \in FwdAddrs, tag \in 0..(MaxTag + 1), ret \in CbRets,
          fail \in RecvCbFails :
         NA_Trigger_recv(addr, tag, ret, fail)
    \/ \E r \in Handles, status_ptr \in BOOLEAN : HG_Wait(r, status_ptr)
    \/ \E util_fail \in BOOLEAN : HG_Wait_send_return(util_fail)
    \/ \E util_fail \in BOOLEAN : HG_Wait_recv_return(util_fail)
    \/ \E array \in WaitArrays : HG_Wait_all(array)
    \/ HG_Wait_all_next
    \/ \E r \in Handles, fail \in RequestFreeFails : HG_Request_free(r, fail)

Spec == Init /\ [][Next]_vars

(***************************************************************************)
(* SpecLife: initialization, finalization and registration with their      *)
(* failures; the calls on requests are made with one plain request.        *)
(***************************************************************************)
NextLife ==
    \/ \E na_class \in {NULL, NaClass}, fail \in InitFails :
         HG_Init(na_class, fail)
    \/ \E fail \in FinalizeFails : HG_Finalize(fail)
    \/ HG_Bulk_init
    \/ HG_Bulk_finalize
    \/ \E func_name \in Names, fail \in RegisterFails :
         HG_Register(func_name, fail)
    \/ \E func_name \in Names, flag_ptr \in {NULL, "flag"} :
         HG_Registered(func_name, flag_ptr)
    \/ \E addr \in FwdAddrs, fail \in {"none", "malloc_request"} :
         HG_Forward(addr, 1, NullStruct, NULL, fail)
    \/ \E r \in Handles, status_ptr \in BOOLEAN : HG_Wait(r, status_ptr)
    \/ HG_Wait_send_return(FALSE)
    \/ HG_Wait_recv_return(FALSE)
    \/ \E array \in WaitArrays : HG_Wait_all(array)
    \/ HG_Wait_all_next
    \/ \E r \in Handles : HG_Request_free(r, "none")

SpecLife == Init /\ [][NextLife]_vars

(***************************************************************************)
(* SpecTag: hg_gen_request_tag called by concurrent threads                *)
(***************************************************************************)
\* The process after a successful HG_Init.
Initialized ==
    HG_Init_effect([cls |-> NULL, ctx |-> NULL, rcls |-> NULL,
                    internal |-> FALSE, map |-> NullMap, tag |-> 0,
                    max |-> 0, bulk |-> NULL], NaClass, "none").g

InitAfterHG_Init ==
    /\ hg_na_class_g = Initialized.cls
    /\ hg_context_g = Initialized.ctx
    /\ hg_request_class_g = Initialized.rcls
    /\ hg_bulk_initialized_internal_g = Initialized.internal
    /\ hg_func_map_g = Initialized.map
    /\ hg_request_tag_g = Initialized.tag
    /\ hg_request_max_tag_g = Initialized.max
    /\ hg_bulk_na_class_g = Initialized.bulk
    /\ req = [r \in Reqs |-> NoRequest]
    /\ wait = NotWaiting
    /\ status = [r \in Reqs |-> -1]
    /\ call = NoCall
    /\ fwd = NoFwd
    /\ crashed = FALSE
    /\ rxs = [a \in Addrs |-> <<>>]
    /\ early = [a \in Addrs |-> <<>>]
    /\ sends = {}
    /\ completion_queue = <<>>
    /\ TagIdle
    /\ CCIIdle
    /\ RecvIdle
    /\ TimeIdle
    /\ HistIdle
    /\ PlugIdle

\* Thread t executes hg_atomic_cas32(&hg_request_tag_g,
\* hg_request_max_tag_g, 0): on success the draw returns tag 0, else the
\* thread goes on to the increment.
hg_gen_request_tag_cas(t) ==
    /\ tpc[t] = "idle"
    /\ tdraws[t] < MaxDraws
    /\ IF hg_request_tag_g = hg_request_max_tag_g
       THEN /\ hg_request_tag_g' = 0
            /\ ttag' = [ttag EXCEPT ![t] = 0]
            /\ tdraws' = [tdraws EXCEPT ![t] = @ + 1]
            /\ tpc' = tpc
       ELSE /\ tpc' = [tpc EXCEPT ![t] = "incr"]
            /\ UNCHANGED <<hg_request_tag_g, ttag, tdraws>>
    /\ UNCHANGED <<hg_na_class_g, hg_context_g, hg_request_class_g,
                   hg_bulk_initialized_internal_g, hg_func_map_g,
                   hg_request_max_tag_g, hg_bulk_na_class_g,
                   reqvars, call, crashed, ccivars, rcvvars, timevars, histvars, plugvars>>

\* A variant of hg_gen_request_tag_incr in which hg_atomic_incr32 returns
\* the counter as it was before the increment.
hg_gen_request_tag_incr_returns_old(t) ==
    /\ tpc[t] = "incr"
    /\ hg_request_tag_g' = hg_request_tag_g + 1
    /\ ttag' = [ttag EXCEPT ![t] = hg_request_tag_g]
    /\ tdraws' = [tdraws EXCEPT ![t] = @ + 1]
    /\ tpc' = [tpc EXCEPT ![t] = "idle"]
    /\ UNCHANGED <<hg_na_class_g, hg_context_g, hg_request_class_g,
                   hg_bulk_initialized_internal_g, hg_func_map_g,
                   hg_request_max_tag_g, hg_bulk_na_class_g,
                   reqvars, call, crashed, ccivars, rcvvars, timevars, histvars, plugvars>>

\* Thread t executes tag = hg_atomic_incr32(&hg_request_tag_g) and returns.
hg_gen_request_tag_incr(t) ==
    /\ tpc[t] = "incr"
    /\ hg_request_tag_g' = hg_request_tag_g + 1
    /\ ttag' = [ttag EXCEPT ![t] = hg_request_tag_g + 1]
    /\ tdraws' = [tdraws EXCEPT ![t] = @ + 1]
    /\ tpc' = [tpc EXCEPT ![t] = "idle"]
    /\ UNCHANGED <<hg_na_class_g, hg_context_g, hg_request_class_g,
                   hg_bulk_initialized_internal_g, hg_func_map_g,
                   hg_request_max_tag_g, hg_bulk_na_class_g,
                   reqvars, call, crashed, ccivars, rcvvars, timevars, histvars, plugvars>>

NextTag ==
    \/ \E t \in Threads : hg_gen_request_tag_cas(t)
    \/ \E t \in Threads : hg_gen_request_tag_incr(t)

SpecTag == InitAfterHG_Init /\ [][NextTag]_vars

(***************************************************************************)
(* SpecCCI: the CCI plugin                                                 *)
(***************************************************************************)
\* The body shared by na_cci_msg_send_unexpected and na_cci_msg_send_expected
\* as a step: the op_id is allocated and the message handed to cci_sendv.
na_cci_msg_send_post(type, tag, fail) ==
    /\ nops < MaxOps
    /\ LET p == na_cci_msg_send(Op(nops + 1, type, nops + 1, MaxSendSize, tag),
                                fail)
       IN  /\ sends' = sends \cup p.sent
           /\ na_ret' = p.ret
    /\ nops' = nops + 1
    /\ UNCHANGED <<hgvars, req, wait, status, fwd, rxs, early,
                   completion_queue, call, crashed, tagvars, events, handled,
                   cb_count, rcvvars,
                   timevars, histvars, plugvars>>

na_cci_msg_send_unexpected(tag, fail) ==
    na_cci_msg_send_post("NA_CB_SEND_UNEXPECTED", tag, fail)

na_cci_msg_send_expected(tag, fail) ==
    na_cci_msg_send_post("NA_CB_SEND_EXPECTED", tag, fail)

\* A CCI event as na_cci_progress sees it: its type and, for a send, the
\* op_id given to cci_sendv as context.
CciEvent(type, op) == [type |-> type, op |-> op]

\* The transport finishes a send: it queues the CCI_EVENT_SEND of the op.
cci_send_done(op) ==
    /\ op \in sends
    /\ sends' = sends \ {op}
    /\ events' = Append(events, CciEvent("CCI_EVENT_SEND", op.id))
    /\ UNCHANGED <<hgvars, req, wait, status, fwd, rxs, early,
                   completion_queue, call, crashed, tagvars, nops, handled,
                   cb_count, na_ret, rcvvars,
                   timevars, histvars, plugvars>>

\* handle_send: the completion queue of the context after the handler ran
\* on the CCI_EVENT_SEND of an op.
handle_send(queue, op) == queue

\* na_cci_progress: cci_get_event returns no event until the timeout, or
\* the first event, which is dispatched to its handler and returned.
na_cci_progress ==
    /\ IF events = <<>>
       THEN /\ na_ret' = NA_TIMEOUT
            /\ UNCHANGED <<events, handled, completion_queue>>
       ELSE /\ completion_queue' = handle_send(completion_queue,
                                               Head(events).op)
            /\ handled' = handled \cup {Head(events).op}
            /\ events' = Tail(events)
            /\ na_ret' = NA_SUCCESS
    /\ UNCHANGED <<hgvars, req, wait, status, fwd, rxs, early, sends,
                   call, crashed, tagvars, nops, cb_count, rcvvars,
                   timevars, histvars, plugvars>>

\* NA_Trigger with max_count 1: the first entry of the completion queue is
\* popped and its callback runs; NA_TIMEOUT when the queue is empty.
NA_Trigger ==
    /\ IF completion_queue = <<>>
       THEN /\ na_ret' = NA_TIMEOUT
            /\ UNCHANGED <<completion_queue, cb_count>>
       ELSE /\ completion_queue' = Tail(completion_queue)
            /\ cb_count' = [cb_count EXCEPT
                              ![Head(completion_queue).op.id] = @ + 1]
            /\ na_ret' = NA_SUCCESS
    /\ UNCHANGED <<hgvars, req, wait, status, fwd, rxs, early, sends,
                   call, crashed, tagvars, nops, events, handled, rcvvars,
                   timevars, histvars, plugvars>>

NextCCI ==
    \/ \E tag \in 0..MaxTag, fail \in SendFails :
         na_cci_msg_send_unexpected(tag, fail)
    \/ \E tag \in 0..MaxTag, fail \in SendFails :
         na_cci_msg_send_expected(tag, fail)
    \/ \E op \in sends : cci_send_done(op)
    \/ na_cci_progress
    \/ NA_Trigger

SpecCCI == InitAfterHG_Init /\ [][NextCCI]_vars

(***************************************************************************)
(* SpecUnexp: unexpected receives, posted by one thread while the progress *)
(* thread handles the arrivals.  A step ends where a queue's mutex is      *)
(* released.                                                               *)
(***************************************************************************)
\* Messages that may arrive.
MaxMsgs == 2

\* sizeof(msg->size): the framing word in front of the payload.
MsgHeaderSize == 4

\* Buffer sizes of the unexpected receives posted, and payload lengths of
\* the unexpected messages.
UnexpBufSizes == {2, 5}
UnexpMsgLens == {1, 3, 6}

\* hg_queue_push_head and hg_queue_pop_tail on a queue whose head is the
\* first element; null: the queue was empty and HG_QUEUE_NULL is returned.
hg_queue_push_head(queue, value) == <<value>> \o queue

hg_queue_pop_tail(queue) ==
    IF queue = <<>> THEN [null |-> TRUE, value |-> NULL, queue |-> queue]
    ELSE [null |-> FALSE, value |-> queue[Len(queue)],
          queue |-> SubSeq(queue, 1, Len(queue) - 1)]

\* A variant of na_cci_msg_unexpected_pop that pops the head of the queue.
na_cci_msg_unexpected_pop_head(queue) ==
    IF queue = <<>> THEN [null |-> TRUE, value |-> NULL, queue |-> queue]
    ELSE [null |-> FALSE, value |-> Head(queue), queue |-> Tail(queue)]

\* na_cci_msg_unexpected_pop and na_cci_msg_unexpected_op_pop, each under
\* the mutex of its queue.
na_cci_msg_unexpected_pop(queue) == hg_queue_pop_tail(queue)

na_cci_msg_unexpected_op_pop(queue) == hg_queue_pop_tail(queue)

\* One call of a receive-posting function, when it returned: the op it
\* allocated, the arguments, the return code, whether *op_id was assigned
\* and whether a message that had already arrived was delivered.
Post(id, kind, addr, tag, buf_size, ret, assigned, hit) ==
    [id |-> id, kind |-> kind, addr |-> addr, tag |-> tag,
     buf_size |-> buf_size, ret |-> ret, assigned |-> assigned, hit |-> hit]

\* One pairing of a message with a receive: kind is "unexpected" or
\* "expected", path "post" (the message was buffered and the receive found
\* it) or "arrival" (the receive was posted and the message found it); msg
\* and op number the message and the receive, addr and tag are the source
\* and the tag of the message (0 where the plugin no longer holds them);
\* len is the payload length, buf_size the size of the receive's buffer,
\* copied the length given to memcpy, actual the actual_size written to the
\* op and ret what na_cci_complete returned.
Match(kind, path, msg, op, addr, tag, len, buf_size, copied, actual, ret) ==
    [kind |-> kind, path |-> path, msg |-> msg, op |-> op, addr |-> addr,
     tag |-> tag, len |-> len, buf_size |-> buf_size, copied |-> copied,
     actual |-> actual, ret |-> ret]

UnexpPostFails == {"none", "malloc", "complete"}

\* na_cci_msg_recv_unexpected up to the release of the message queue's
\* mutex and, when a message was buffered, to its return: the op is
\* allocated and the message queue popped; a message found is copied and
\* the op completed, else the thread goes on to push the op.
na_cci_msg_recv_unexpected(buf_size, fail) ==
    /\ ~crashed
    /\ post_pc.pc = "idle"
    /\ nops < MaxOps
    /\ nops' = nops + 1
    /\ LET id == nops + 1
           op == Op(id, "NA_CB_RECV_UNEXPECTED", id, buf_size, 0)
           popped == na_cci_msg_unexpected_pop(unexpected_msg_queue)
           rx == popped.value
       IN  IF fail = "malloc"
           THEN /\ posts' = Append(posts, Post(id, "unexpected", 0, 0,
                                      buf_size, NA_NOMEM_ERROR, FALSE, FALSE))
                /\ na_ret' = NA_NOMEM_ERROR
                /\ UNCHANGED <<unexpected_msg_queue, matched,
                               completion_queue, post_pc>>
           ELSE IF ~popped.null
           THEN LET msg_len == IF buf_size < rx.buf_size
                               THEN buf_size ELSE rx.buf_size
                    filled == [op EXCEPT !.actual_size = msg_len,
                                         !.written = msg_len,
                                         !.tag = rx.tag]
                    c == na_cci_complete(filled,
                             IF fail = "complete" THEN "malloc" ELSE "none")
                IN  /\ unexpected_msg_queue' = popped.queue
                    /\ matched' = Append(matched,
                           Match("unexpected", "post", rx.id, id,
                                 rx.addr, rx.tag, rx.buf_size, buf_size, msg_len, msg_len,
                                 c.ret))
                    /\ completion_queue' = completion_queue \o c.queued
                    /\ posts' = Append(posts, Post(id, "unexpected", 0, 0,
                                   buf_size, c.ret, c.ret = NA_SUCCESS, TRUE))
                    /\ na_ret' = c.ret
                    /\ post_pc' = post_pc
           ELSE /\ post_pc' = [pc |-> "push", op |-> op]
                /\ UNCHANGED <<unexpected_msg_queue, matched,
                               completion_queue, posts, na_ret>>
    /\ UNCHANGED <<hgvars, req, wait, status, fwd, rxs, early, sends, call,
                   crashed, tagvars, events, handled, cb_count,
                   unexpected_op_queue, nmsgs, prog_pc, timevars, histvars, plugvars>>

\* na_cci_msg_unexpected_op_push and the return of
\* na_cci_msg_recv_unexpected: the op is pushed to the op queue and *op_id
\* assigned, or freed when the push fails.
na_cci_msg_unexpected_op_push(fail) ==
    /\ ~crashed
    /\ post_pc.pc = "push"
    /\ LET op == post_pc.op
           ret == IF fail THEN NA_NOMEM_ERROR ELSE NA_SUCCESS
       IN  /\ unexpected_op_queue' =
                  IF fail THEN unexpected_op_queue
                  ELSE hg_queue_push_head(unexpected_op_queue, op)
           /\ posts' = Append(posts, Post(op.id, "unexpected", 0, 0,
                                  op.buf_size, ret, ~fail, FALSE))
           /\ na_ret' = ret
    /\ post_pc' = [pc |-> "idle", op |-> NoOp]
    /\ UNCHANGED <<hgvars, reqvars, call, crashed, tagvars, nops, events,
                   handled, cb_count, unexpected_msg_queue, nmsgs, matched,
                   prog_pc, timevars, histvars, plugvars>>

UnexpArrivalFails == {"none", "complete", "calloc"}

\* handle_recv_unexpected on the CCI_EVENT_RECV of an unexpected message,
\* up to the release of the op queue's mutex and, when a receive was
\* posted, to its return: the op queue is popped; the message is copied to
\* the op found and the op completed, else the message is copied to a new
\* na_cci_info_recv_unexpected, which the thread goes on to push.
handle_recv_unexpected(addr, tag, msg_len, fail) ==
    /\ ~crashed
    /\ prog_pc.pc = "idle"
    /\ nmsgs < MaxMsgs
    /\ nmsgs' = nmsgs + 1
    /\ LET id == nmsgs + 1
           recv_len == msg_len + MsgHeaderSize
           popped == na_cci_msg_unexpected_op_pop(unexpected_op_queue)
           op == popped.value
       IN  IF ~popped.null
           THEN LET len == IF op.buf_size < recv_len - msg_len
                           THEN op.buf_size ELSE msg_len
                    filled == [op EXCEPT !.actual_size = len,
                                         !.written = len, !.tag = tag]
                    c == na_cci_complete(filled,
                             IF fail = "complete" THEN "malloc" ELSE "none")
                IN  /\ unexpected_op_queue' = popped.queue
                    /\ matched' = Append(matched,
                           Match("unexpected", "arrival", id, op.id, addr,
                                 tag, msg_len,
                                 op.buf_size, len, len, c.ret))
                    /\ completion_queue' = completion_queue \o c.queued
                    /\ crashed' \in Outcomes(len > op.buf_size)
                    /\ prog_pc' = prog_pc
           ELSE /\ prog_pc' =
                      IF fail = "calloc" THEN prog_pc
                      ELSE [pc |-> "push",
                            msg |-> [id |-> id, buf_size |-> msg_len,
                                     addr |-> addr, tag |-> tag]]
                /\ UNCHANGED <<unexpected_op_queue, matched,
                               completion_queue, crashed>>
    /\ UNCHANGED <<hgvars, req, wait, status, fwd, rxs, early, sends, call,
                   tagvars, ccivars, unexpected_msg_queue, posts, post_pc,
                   timevars, histvars, plugvars>>

\* na_cci_msg_unexpected_push and the return of handle_recv_unexpected: the
\* buffered message is pushed to the message queue, or freed when the push
\* fails.
na_cci_msg_unexpected_push(fail) ==
    /\ ~crashed
    /\ prog_pc.pc = "push"
    /\ unexpected_msg_queue' =
           IF fail THEN unexpected_msg_queue
           ELSE hg_queue_push_head(unexpected_msg_queue, prog_pc.msg)
    /\ prog_pc' = [pc |-> "idle", msg |-> NoMsg]
    /\ UNCHANGED <<hgvars, reqvars, call, crashed, tagvars, ccivars,
                   unexpected_op_queue, nmsgs, posts, matched, post_pc,
                   timevars, histvars, plugvars>>

NextUnexp ==
    \/ \E buf_size \in UnexpBufSizes, fail \in UnexpPostFails :
         na_cci_msg_recv_unexpected(buf_size, fail)
    \/ \E fail \in BOOLEAN : na_cci_msg_unexpected_op_push(fail)
    \/ \E addr \in Addrs, msg_len \in UnexpMsgLens,
          fail \in UnexpArrivalFails :
         handle_recv_unexpected(addr, 0, msg_len, fail)
    \/ \E fail \in BOOLEAN : na_cci_msg_unexpected_push(fail)

SpecUnexp == InitAfterHG_Init /\ [][NextUnexp]_vars

(***************************************************************************)
(* SpecExp: expected receives and expected messages on the addresses       *)
(***************************************************************************)
\* Buffer sizes of the expected receives posted, and payload lengths of the
\* expected messages.
ExpBufSizes == {2, 3}
ExpMsgLens == {2, 3}

\* Expected receives that may be posted.
MaxExpOps == 2

\* Tags of the expected receives and messages.
ExpTags == {0, MaxTag}

ExpPostFails == {"none", "calloc", "malloc"}

\* NA_Msg_recv_expected(buf, buf_size, source = addr, tag, op_id) as one
\* step: na_cci_msg_recv_expected.  Copying more than buf_size bytes
\* overruns the caller's buffer, more than the early entry holds reads past
\* its end.
NA_Msg_recv_expected(addr, tag, buf_size, fail) ==
    /\ ~crashed
    /\ nops < MaxExpOps
    /\ nops' = nops + 1
    /\ LET id == nops + 1
           p == na_cci_msg_recv_expected(rxs[addr], early[addr],
                    Op(id, "NA_CB_RECV_EXPECTED", id, buf_size, tag), fail)
       IN  /\ rxs' = [rxs EXCEPT ![addr] = p.rxs]
           /\ early' = [early EXCEPT ![addr] = p.early]
           /\ completion_queue' = completion_queue \o p.queued
           /\ posts' = Append(posts, Post(id, "expected", addr, tag, buf_size,
                                          p.ret, p.assigned, p.hit # 0))
           /\ na_ret' = p.ret
           /\ IF p.hit # 0
              THEN LET rx == early[addr][p.hit]
                   IN  /\ matched' = Append(matched,
                              Match("expected", "post", rx.id, id, addr,
                                    rx.tag, rx.buf_size, buf_size, p.len, p.len,
                                    p.ret))
                       /\ crashed' \in Outcomes(p.len > buf_size
                                                \/ p.len > rx.buf_size)
              ELSE UNCHANGED <<matched, crashed>>
    /\ UNCHANGED <<hgvars, req, wait, status, fwd, sends, call, tagvars,
                   events, handled, cb_count, unexpected_msg_queue,
                   unexpected_op_queue, nmsgs, post_pc, prog_pc, timevars, histvars, plugvars>>

ExpArrivalFails == {"none", "malloc", "calloc"}

\* handle_recv_expected on the CCI_EVENT_RECV of an expected message from
\* addr: the first receive posted on addr with the tag gets min(len,
\* buf_size) bytes and is completed; without one the message is appended to
\* the early list of addr, or dropped when calloc fails.
handle_recv_expected(addr, tag, msg_len, fail) ==
    /\ ~crashed
    /\ nmsgs < MaxMsgs
    /\ nmsgs' = nmsgs + 1
    /\ LET id == nmsgs + 1
           i == FirstWithTag(rxs[addr], tag)
       IN  IF i # 0
           THEN LET op == rxs[addr][i]
                    len == IF op.buf_size < msg_len
                           THEN op.buf_size ELSE msg_len
                    filled == [op EXCEPT !.actual_size = len,
                                         !.written = len]
                    c == na_cci_complete(filled, fail)
                IN  /\ rxs' = [rxs EXCEPT ![addr] = RemoveAt(@, i)]
                    /\ completion_queue' = completion_queue \o c.queued
                    /\ matched' = Append(matched,
                           Match("expected", "arrival", id, op.id, addr,
                                 tag, msg_len,
                                 op.buf_size, len, len, c.ret))
                    /\ early' = early
           ELSE /\ early' =
                      IF fail = "calloc" THEN early
                      ELSE [early EXCEPT ![addr] =
                               Append(@, [id |-> id, buf_size |-> msg_len,
                                          tag |-> tag])]
                /\ UNCHANGED <<rxs, completion_queue, matched>>
    /\ UNCHANGED <<hgvars, req, wait, status, fwd, sends, call, crashed,
                   tagvars, ccivars, unexpected_msg_queue,
                   unexpected_op_queue, posts, post_pc, prog_pc, timevars, histvars, plugvars>>

NextExp ==
    \/ \E addr \in Addrs, tag \in ExpTags, buf_size \in ExpBufSizes,
          fail \in ExpPostFails :
         NA_Msg_recv_expected(addr, tag, buf_size, fail)
    \/ \E addr \in Addrs, tag \in ExpTags, msg_len \in ExpMsgLens,
          fail \in ExpArrivalFails :
         handle_recv_expected(addr, tag, msg_len, fail)
    \/ NA_Trigger

SpecExp == InitAfterHG_Init /\ [][NextExp]_vars

(***************************************************************************)
(* SpecTimeout: the timeouts HG_Wait gives to its two waits                *)
(***************************************************************************)
\* Milliseconds in a second: the divisor and the factor of HG_Wait.
MsPerSec == 1000

\* Timeouts HG_Wait is called with, in milliseconds, and times the wait on
\* send_request may take, in milliseconds.  The elapsed times are multiples
\* of 125 ms, which hg_time_to_double represents exactly in seconds.
WaitTimeouts ==
    {0, 1, 250, 500, 750, 999, 1000, 1001, 1250, 1500, 1999, 2000, 2001,
     2500, 3000, 3500}
WaitElapsed == {0, 125, 250, 500, 1000, 1500}

\* `remaining` at the declaration, in seconds: timeout / 1000 is a division
\* of two integers.
HG_Wait_remaining(timeout) == timeout \div MsPerSec

\* (unsigned int) (remaining * 1000) at the call of hg_request_wait on
\* recv_request, after `elapsed` milliseconds were subtracted from
\* `remaining` and the result floored at 0.
HG_Wait_recv_timeout(timeout, elapsed) ==
    LET remaining_ms == HG_Wait_remaining(timeout) * MsPerSec - elapsed
    IN  IF remaining_ms < 0 THEN 0 ELSE remaining_ms

\* HG_Wait(request, timeout, status) is called and blocks in
\* hg_request_wait(send_request, timeout).
HG_Wait_timeout(timeout) ==
    /\ tw.pc = "none"
    /\ tw' = WaitTime("entry", timeout, 0, 0)
    /\ UNCHANGED <<hgvars, reqvars, call, crashed, tagvars, ccivars, rcvvars,
                   wa, histvars, plugvars>>

\* The wait on send_request returns after `elapsed` milliseconds and
\* HG_Wait calls hg_request_wait(recv_request, remaining * 1000).
HG_Wait_timeout_recv(elapsed) ==
    /\ tw.pc = "entry"
    /\ tw' = WaitTime("recv", tw.timeout, elapsed,
                      HG_Wait_recv_timeout(tw.timeout, elapsed))
    /\ UNCHANGED <<hgvars, reqvars, call, crashed, tagvars, ccivars, rcvvars,
                   wa, histvars, plugvars>>

\* The wait on recv_request returns and HG_Wait with it.
HG_Wait_timeout_return ==
    /\ tw.pc = "recv"
    /\ tw' = WaitTime("none", 0, 0, 0)
    /\ UNCHANGED <<hgvars, reqvars, call, crashed, tagvars, ccivars, rcvvars,
                   wa, histvars, plugvars>>

NextTimeout ==
    \/ \E timeout \in WaitTimeouts : HG_Wait_timeout(timeout)
    \/ \E elapsed \in WaitElapsed : HG_Wait_timeout_recv(elapsed)
    \/ HG_Wait_timeout_return

SpecTimeout == InitAfterHG_Init /\ [][NextTimeout]_vars

(***************************************************************************)
(* SpecInput: HG_Forward with input structures of every size               *)
(***************************************************************************)
\* Largest encoding of an input structure.
MaxPayload == 7

\* The bytes of send_buf left for the encoding after the request header.
InlineCapacity == na_cci_msg_get_max_unexpected_size - RequestHeaderSize

NextInput ==
    \/ HG_Init(NaClass, "none")
    \/ HG_Register("rpc_a", "none")
    \/ \E addr \in FwdAddrs, size \in 0..MaxPayload,
          out_struct \in OutStructs,
          fail \in {"none"} \cup SetInputFails :
         HG_Forward(addr, 1, InStruct(size), out_struct, fail)
    \/ \E r \in Reqs : NA_Trigger_send(r, NA_SUCCESS)
    \/ \E addr \in FwdAddrs, tag \in 0..MaxTag :
         NA_Trigger_recv(addr, tag, NA_SUCCESS, "none")

SpecInput == Init /\ [][NextInput]_vars

(***************************************************************************)
(* SpecRma: na_cci_put and na_cci_get, the completion of the transfers by  *)
(* the transport, na_cci_progress and NA_Trigger                           *)
(***************************************************************************)
\* The access flags of a memory handle (na.h).
NA_MEM_READWRITE == 0
NA_MEM_READ_ONLY == 1

\* Lengths of the transfers posted.
RmaLengths == {0, 2}

RmaFails == {"none", "malloc", "cci_rma"}

\* A variant of na_cci_put_result that tests the access of the remote
\* handle after the op_id was allocated.
na_cci_put_result_checks_late(remote_attr, op, fail) ==
    IF fail = "malloc"
    THEN [ret |-> NA_NOMEM_ERROR, allocated |-> FALSE, posted |-> {},
          assigned |-> FALSE]
    ELSE IF remote_attr # NA_MEM_READWRITE
    THEN [ret |-> NA_PERMISSION_ERROR, allocated |-> TRUE, posted |-> {},
          assigned |-> FALSE]
    ELSE IF fail = "cci_rma"
    THEN [ret |-> NA_PROTOCOL_ERROR, allocated |-> TRUE, posted |-> {},
          assigned |-> FALSE]
    ELSE [ret |-> NA_SUCCESS, allocated |-> TRUE, posted |-> {op},
          assigned |-> TRUE]

\* na_cci_put with a remote handle of access remote_attr: the return code,
\* whether malloc returned an op_id, the ops handed to cci_rma and whether
\* *op_id was assigned.
na_cci_put_result(remote_attr, op, fail) ==
    IF remote_attr # NA_MEM_READWRITE
    THEN [ret |-> NA_PERMISSION_ERROR, allocated |-> FALSE, posted |-> {},
          assigned |-> FALSE]
    ELSE IF fail = "malloc"
    THEN [ret |-> NA_NOMEM_ERROR, allocated |-> FALSE, posted |-> {},
          assigned |-> FALSE]
    ELSE IF fail = "cci_rma"
    THEN [ret |-> NA_PROTOCOL_ERROR, allocated |-> TRUE, posted |-> {},
          assigned |-> FALSE]
    ELSE [ret |-> NA_SUCCESS, allocated |-> TRUE, posted |-> {op},
          assigned |-> TRUE]

\* na_cci_get: as na_cci_put, without a test of the access.
na_cci_get_result(op, fail) ==
    IF fail = "malloc"
    THEN [ret |-> NA_NOMEM_ERROR, allocated |-> FALSE, posted |-> {},
          assigned |-> FALSE]
    ELSE IF fail = "cci_rma"
    THEN [ret |-> NA_PROTOCOL_ERROR, allocated |-> TRUE, posted |-> {},
          assigned |-> FALSE]
    ELSE [ret |-> NA_SUCCESS, allocated |-> TRUE, posted |-> {op},
          assigned |-> TRUE]

\* A call of na_cci_put or na_cci_get whose result is p: nops counts the
\* op_ids malloc returned, sends the ops the transport holds.
na_cci_rma_post(kind, length, p) ==
    /\ nops < MaxOps
    /\ nops' = IF p.allocated THEN nops + 1 ELSE nops
    /\ sends' = sends \cup p.posted
    /\ posts' = Append(posts, Post(IF p.assigned THEN nops + 1 ELSE 0, kind,
                                   0, 0, length, p.ret, p.assigned, FALSE))
    /\ na_ret' = p.ret
    /\ UNCHANGED <<hgvars, req, wait, status, fwd, rxs, early,
                   completion_queue, call, crashed, tagvars, events, handled,
                   cb_count, unexpected_msg_queue, unexpected_op_queue, nmsgs,
                   matched, post_pc, prog_pc, timevars, histvars, plugvars>>

na_cci_put(remote_attr, length, fail) ==
    /\ Len(posts) < MaxRmaCalls
    /\ na_cci_rma_post("NA_CB_PUT", length,
           na_cci_put_result(remote_attr,
               Op(nops + 1, "NA_CB_PUT", nops + 1, length, 0), fail))

na_cci_get(length, fail) ==
    /\ Len(posts) < MaxRmaCalls
    /\ na_cci_rma_post("NA_CB_GET", length,
           na_cci_get_result(Op(nops + 1, "NA_CB_GET", nops + 1, length, 0),
                             fail))

\* The transport reports the end of a transfer as it reports the end of a
\* send: with a CCI_EVENT_SEND whose context is the op_id given to cci_rma.
NextRma ==
    \/ \E remote_attr \in {NA_MEM_READWRITE, NA_MEM_READ_ONLY},
          length \in RmaLengths, fail \in RmaFails :
         na_cci_put(remote_attr, length, fail)
    \/ \E length \in RmaLengths, fail \in RmaFails : na_cci_get(length, fail)
    \/ \E op \in sends : cci_send_done(op)
    \/ na_cci_progress
    \/ NA_Trigger

SpecRma == InitAfterHG_Init /\ [][NextRma]_vars

(***************************************************************************)
(* SpecProgress: the loop of na_cci_progress, one call of cci_get_event a  *)
(* step, while the transport queues events                                 *)
(***************************************************************************)
\* Timeouts given to na_cci_progress and the time one call of cci_get_event
\* that returns no event takes, in milliseconds.
ProgressTimeouts == {0, 1, 3}
PollTimes == {0, 1, 2}

\* Calls of cci_get_event in one call of na_cci_progress, and events the
\* endpoint holds.
MaxPolls == 4
MaxEvents == 2

\* The events whose handlers leave the plugin as it is, and an event type
\* the switch has no case for.  (The handlers of CCI_EVENT_RECV are the
\* steps of SpecUnexp and SpecExp.)
EventTypes ==
    {"CCI_EVENT_SEND", "CCI_EVENT_CONNECT_REQUEST", "CCI_EVENT_CONNECT",
     "CCI_EVENT_ACCEPT", "CCI_EVENT_KEEPALIVE_TIMEDOUT"}

\* The transport queues an event on the endpoint.
cci_event(type) ==
    /\ Len(events) < MaxEvents
    /\ events' = Append(events, CciEvent(type, 1))
    /\ UNCHANGED <<hgvars, reqvars, call, crashed, tagvars, nops, handled,
                   cb_count, na_ret, rcvvars, timevars, histvars, pg,
                   cancelled, mh>>

\* na_cci_progress(timeout) up to the loop.
na_cci_progress_call(timeout) ==
    /\ pg.pc = "idle"
    /\ pg' = Progress("poll", timeout, timeout, NA_TIMEOUT, 0, 0)
    /\ UNCHANGED <<hgvars, reqvars, call, crashed, tagvars, ccivars, rcvvars,
                   timevars, histvars, cancelled, mh>>

\* A variant of na_cci_progress_again that goes on after an event.
na_cci_progress_again_after_event(remaining, ret) == remaining > 0

\* The condition of the do-while loop.
na_cci_progress_again(remaining, ret) == remaining > 0 /\ ret # NA_SUCCESS

\* One iteration of the loop.  cci_get_event returns an error (rc, or
\* CCI_EAGAIN when the endpoint holds no event) after `elapsed`
\* milliseconds, or the first event, which is dispatched and returned.
na_cci_progress_poll(elapsed, rc) ==
    /\ pg.pc = "poll"
    /\ pg.polls < MaxPolls
    /\ IF events = <<>> \/ rc = "error"
       THEN /\ pg' = [pg EXCEPT
                        !.remaining = @ - elapsed,
                        !.polls = @ + 1,
                        !.pc = IF na_cci_progress_again(pg.remaining - elapsed,
                                                        pg.ret)
                               THEN "poll" ELSE "return"]
            /\ UNCHANGED <<events, handled, completion_queue>>
       ELSE /\ completion_queue' =
                   IF Head(events).type = "CCI_EVENT_SEND"
                   THEN handle_send(completion_queue, Head(events).op)
                   ELSE completion_queue
            /\ handled' = IF Head(events).type = "CCI_EVENT_SEND"
                          THEN handled \cup {Head(events).op} ELSE handled
            /\ events' = Tail(events)
            /\ pg' = [pg EXCEPT
                        !.ret = NA_SUCCESS,
                        !.polls = @ + 1,
                        !.nhandled = @ + 1,
                        !.pc = IF na_cci_progress_again(pg.remaining,
                                                        NA_SUCCESS)
                               THEN "poll" ELSE "return"]
    /\ UNCHANGED <<hgvars, req, wait, status, fwd, rxs, early, sends,
                   call, crashed, tagvars, nops, cb_count, na_ret, rcvvars,
                   timevars, histvars, cancelled, mh>>

\* return ret;
na_cci_progress_return ==
    /\ pg.pc = "return"
    /\ na_ret' = pg.ret
    /\ pg' = ProgressIdle
    /\ UNCHANGED <<hgvars, reqvars, call, crashed, tagvars, nops, events,
                   handled, cb_count, rcvvars, timevars, histvars, cancelled,
                   mh>>

NextProgress ==
    \/ \E type \in EventTypes : cci_event(type)
    \/ \E timeout \in ProgressTimeouts : na_cci_progress_call(timeout)
    \/ \E elapsed \in PollTimes, rc \in {"none", "error"} :
         na_cci_progress_poll(elapsed, rc)
    \/ na_cci_progress_return

SpecProgress == InitAfterHG_Init /\ [][NextProgress]_vars

(***************************************************************************)
(* SpecCancel: expected receives, their messages and na_cci_cancel         *)
(***************************************************************************)
\* na_cci_cancel(op_id): the body is a TODO that returns
\* NA_PROTOCOL_ERROR.  cancelled records the op_ids it was called with.
na_cci_cancel(op_id) ==
    /\ ~crashed
    /\ op_id \in 1..nops
    /\ na_ret' = NA_PROTOCOL_ERROR
    /\ cancelled' = cancelled \cup {op_id}
    /\ UNCHANGED <<hgvars, reqvars, call, crashed, tagvars, nops, events,
                   handled, cb_count, rcvvars, timevars, histvars, pg, mh>>

NextCancel ==
    \/ \E addr \in Addrs, tag \in ExpTags :
         NA_Msg_recv_expected(addr, tag, MaxSendSize, "none")
    \/ \E addr \in Addrs, tag \in ExpTags :
         handle_recv_expected(addr, tag, MaxSendSize, "none")
    \/ \E op_id \in 1..MaxExpOps : na_cci_cancel(op_id)
    \/ NA_Trigger

SpecCancel == InitAfterHG_Init /\ [][NextCancel]_vars

(***************************************************************************)
(* SpecWaitAll: HG_Wait_all on arrays of requests, one HG_Wait a step      *)
(***************************************************************************)
WaitAllTimeouts == {0, 5}
WaitAllElapsed == {0, 3}
WaitAllArrays ==
    {<<>>} \cup {<<r>> : r \in 0..NumWaitReqs}
    \cup {<<r, p>> : r \in 0..NumWaitReqs, p \in 0..NumWaitReqs}

WaitFails == {"none", "send", "recv"}

\* HG_Wait(request, timeout, status) from its entry to the `done:` label, on
\* the request q (r = NoReq: a NULL request): the return code and the
\* request afterwards.  send_flag and recv_flag are the flags the two
\* hg_request_wait set; fail names the one that fails.
HG_Wait_whole(r, q, send_flag, recv_flag, fail) ==
    IF hg_na_class_g = NULL \/ r = NoReq
    THEN [ret |-> HG_FAIL, q |-> q]
    ELSE IF q.send_request # NULL /\ fail = "send"
    THEN [ret |-> HG_FAIL, q |-> q]
    ELSE
    LET q1 == IF q.send_request # NULL /\ send_flag
              THEN [q EXCEPT !.send_request = NULL] ELSE q
    IN  IF q1.recv_request # NULL /\ fail = "recv"
        THEN [ret |-> HG_FAIL, q |-> q1]
        ELSE [ret |-> HG_SUCCESS,
              q |-> IF q1.recv_request # NULL /\ recv_flag
                    THEN [q1 EXCEPT !.recv_request = NULL] ELSE q1]

\* A variant of HG_Wait_all_timeout: what is left of one budget.
HG_Wait_all_timeout_shared(timeout, elapsed) ==
    IF timeout > elapsed THEN timeout - elapsed ELSE 0

\* The timeout HG_Wait_all gives to HG_Wait, `elapsed` milliseconds after
\* it was called with `timeout`.
HG_Wait_all_timeout(timeout, elapsed) == timeout

\* HG_Wait_all up to its loop.
HG_Wait_all_timed(array, timeout) ==
    /\ wa.pc = "idle"
    /\ wa' = IF hg_na_class_g = NULL
             THEN [wa EXCEPT !.pc = "returned", !.array = array,
                             !.timeout = timeout, !.ret = HG_FAIL]
             ELSE [wa EXCEPT !.pc = "loop", !.array = array,
                             !.timeout = timeout, !.i = 1,
                             !.statuses = [k \in 1..Len(array) |-> -1],
                             !.ret = HG_SUCCESS]
    /\ UNCHANGED <<hgvars, reqvars, call, crashed, tagvars, ccivars, rcvvars,
                   tw, histvars, plugvars>>

\* One iteration: ret = HG_Wait(array_of_requests[i], timeout,
\* &array_of_statuses[i]), which takes `elapsed` milliseconds.  The `done:`
\* label of HG_Wait writes *status unless the request is NULL.
HG_Wait_all_iter(send_flag, recv_flag, fail, elapsed) ==
    /\ wa.pc = "loop"
    /\ wa.i <= Len(wa.array)
    /\ \E r \in {wa.array[wa.i]} :
       \E w \in {HG_Wait_whole(r, IF r = NoReq THEN NoRequest
                                   ELSE wa.reqs[r],
                                send_flag, recv_flag, fail)} :
         wa' = [wa EXCEPT
                  !.calls = Append(@,
                      [request |-> r,
                       timeout |-> HG_Wait_all_timeout(wa.timeout,
                                                       wa.elapsed),
                       ret |-> w.ret,
                       status |-> IF r = NoReq THEN -1 ELSE hg_status(w.q)]),
                  !.statuses = IF r = NoReq THEN @
                               ELSE [@ EXCEPT ![wa.i] = hg_status(w.q)],
                  !.reqs = IF r = NoReq THEN @ ELSE [@ EXCEPT ![r] = w.q],
                  !.ret = w.ret,
                  !.i = @ + 1,
                  !.elapsed = @ + elapsed]
    /\ UNCHANGED <<hgvars, reqvars, call, crashed, tagvars, ccivars, rcvvars,
                   tw, histvars, plugvars>>

\* i = count: return ret;
HG_Wait_all_return ==
    /\ wa.pc = "loop"
    /\ wa.i > Len(wa.array)
    /\ wa' = [wa EXCEPT !.pc = "returned"]
    /\ UNCHANGED <<hgvars, reqvars, call, crashed, tagvars, ccivars, rcvvars,
                   tw, histvars, plugvars>>

NextWaitAll ==
    \/ \E array \in WaitAllArrays, timeout \in WaitAllTimeouts :
         HG_Wait_all_timed(array, timeout)
    \/ \E send_flag \in BOOLEAN, recv_flag \in BOOLEAN, fail \in WaitFails,
          elapsed \in WaitAllElapsed :
         HG_Wait_all_iter(send_flag, recv_flag, fail, elapsed)
    \/ HG_Wait_all_return

SpecWaitAll == InitAfterHG_Init /\ [][NextWaitAll]_vars

(***************************************************************************)
(* Memory handles of the CCI plugin: create, register, serialize,          *)
(* deserialize, free.  A buffer is a sequence of cells; the struct takes   *)
(* one cell per field.                                                     *)
(***************************************************************************)
\* sizeof(struct na_cci_mem_handle), in cells
na_cci_mem_handle_get_serialize_size == 4

MemBases == {1, 2}
MemSizes == {0, 3}
MemFlags == {NA_MEM_READWRITE, NA_MEM_READ_ONLY}
\* the registrations cci_rma_register hands out
RmaHandles == {5, 6}
\* the sizes of the buffers handed to serialize
MemBufSizes == 0 .. (na_cci_mem_handle_get_serialize_size + 1)
\* what a buffer holds before anything is written to it
MemBufFills == {0, 9}
MemFails == {"none", "calloc"}
MemRegisterFails == {"none", "cci_rma_register"}

\* The cells of the struct, in the order of its fields.
MemHandleCells(handle) == <<handle.h, handle.base, handle.size, handle.attr>>

\* The struct whose cells are the first cells of `cells`.
MemHandleOfCells(cells) == MemHandle(cells[1], cells[2], cells[3], cells[4])

\* memcpy(dst, src, len): the first len cells of dst become those of src.
memcpy(dst, src, len) ==
    [i \in 1 .. Len(dst) |-> IF i <= len THEN src[i] ELSE dst[i]]

\* na_cci_mem_handle_serialize(buf, buf_size, mem_handle): the code returned
\* and the buffer afterwards.
na_cci_mem_handle_serialize_result(buf, buf_size, handle) ==
    LET len == na_cci_mem_handle_get_serialize_size
    IN  IF buf_size < len
        THEN [ret |-> NA_SIZE_ERROR, buf |-> buf]
        ELSE [ret |-> NA_SUCCESS,
              buf |-> memcpy(buf, MemHandleCells(handle), len)]

\* A variant of na_cci_mem_handle_deserialize_result that copies one cell
\* less than the struct has.
na_cci_mem_handle_deserialize_result_short(buf, buf_size, fail) ==
    LET len == na_cci_mem_handle_get_serialize_size
        zeroed == MemHandleCells(MemHandle(0, 0, 0, 0))
    IN  IF buf_size < len
        THEN [ret |-> NA_SIZE_ERROR, has_out |-> FALSE,
              out |-> MemHandle(0, 0, 0, 0)]
        ELSE IF fail = "calloc"
        THEN [ret |-> NA_NOMEM_ERROR, has_out |-> FALSE,
              out |-> MemHandle(0, 0, 0, 0)]
        ELSE [ret |-> NA_SUCCESS, has_out |-> TRUE,
              out |-> MemHandleOfCells(memcpy(zeroed, buf, len - 1))]

\* na_cci_mem_handle_deserialize(mem_handle, buf, buf_size): the code
\* returned, whether *mem_handle was written and the handle written.
na_cci_mem_handle_deserialize_result(buf, buf_size, fail) ==
    LET len == na_cci_mem_handle_get_serialize_size
        zeroed == MemHandleCells(MemHandle(0, 0, 0, 0))
    IN  IF buf_size < len
        THEN [ret |-> NA_SIZE_ERROR, has_out |-> FALSE,
              out |-> MemHandle(0, 0, 0, 0)]
        ELSE IF fail = "calloc"
        THEN [ret |-> NA_NOMEM_ERROR, has_out |-> FALSE,
              out |-> MemHandle(0, 0, 0, 0)]
        ELSE [ret |-> NA_SUCCESS, has_out |-> TRUE,
              out |-> MemHandleOfCells(memcpy(zeroed, buf, len))]

\* na_cci_mem_handle_create(buf, buf_size, flags, mem_handle)
na_cci_mem_handle_create(base, size, flags, fail) ==
    /\ mh.pc = "none"
    /\ mh' = IF fail = "calloc"
             THEN [NoMem EXCEPT !.ret = NA_NOMEM_ERROR]
             ELSE Mem("created", MemHandle(0, base, size, flags % 256),
                      <<>>, NA_SUCCESS, FALSE, MemHandle(0, 0, 0, 0))
    /\ UNCHANGED <<hgvars, reqvars, call, crashed, tagvars, ccivars, rcvvars,
                   timevars, histvars, pg, cancelled>>

\* na_cci_mem_register(mem_handle)
na_cci_mem_register(h, fail) ==
    /\ mh.pc = "created"
    /\ mh.handle.h = 0
    /\ mh' = IF fail = "cci_rma_register"
             THEN [mh EXCEPT !.ret = NA_PROTOCOL_ERROR]
             ELSE [mh EXCEPT !.ret = NA_SUCCESS, !.handle.h = h]
    /\ UNCHANGED <<hgvars, reqvars, call, crashed, tagvars, ccivars, rcvvars,
                   timevars, histvars, pg, cancelled>>

\* na_cci_mem_handle_serialize(buf, buf_size, mem_handle) on a buffer of
\* buf_size cells that hold `fill`.
na_cci_mem_handle_serialize(buf_size, fill) ==
    /\ mh.pc = "created"
    /\ \E r \in {na_cci_mem_handle_serialize_result(
                      [i \in 1 .. buf_size |-> fill], buf_size, mh.handle)} :
           mh' = [mh EXCEPT !.pc = "serialized", !.buf = r.buf,
                            !.ret = r.ret]
    /\ UNCHANGED <<hgvars, reqvars, call, crashed, tagvars, ccivars, rcvvars,
                   timevars, histvars, pg, cancelled>>

\* na_cci_mem_handle_deserialize(mem_handle, buf, buf_size) on the first
\* buf_size cells of the buffer that na_cci_mem_handle_serialize filled.
na_cci_mem_handle_deserialize(buf_size, fail) ==
    /\ mh.pc = "serialized"
    /\ mh.ret = NA_SUCCESS
    /\ buf_size <= Len(mh.buf)
    /\ \E r \in {na_cci_mem_handle_deserialize_result(mh.buf, buf_size,
                                                       fail)} :
           mh' = [mh EXCEPT !.pc = "deserialized", !.ret = r.ret,
                            !.has_out = r.has_out, !.out = r.out]
    /\ UNCHANGED <<hgvars, reqvars, call, crashed, tagvars, ccivars, rcvvars,
                   timevars, histvars, pg, cancelled>>

\* na_cci_mem_handle_free(mem_handle) of the handles that exist.
na_cci_mem_handle_free ==
    /\ mh.pc # "none"
    /\ mh' = [NoMem EXCEPT !.ret = NA_SUCCESS]
    /\ UNCHANGED <<hgvars, reqvars, call, crashed, tagvars, ccivars, rcvvars,
                   timevars, histvars, pg, cancelled>>

NextMem ==
    \/ \E base \in MemBases, size \in MemSizes, flags \in MemFlags,
          fail \in MemFails :
         na_cci_mem_handle_create(base, size, flags, fail)
    \/ \E h \in RmaHandles, fail \in MemRegisterFails :
         na_cci_mem_register(h, fail)
    \/ \E buf_size \in MemBufSizes, fill \in MemBufFills :
         na_cci_mem_handle_serialize(buf_size, fill)
    \/ \E buf_size \in MemBufSizes, fail \in MemFails :
         na_cci_mem_handle_deserialize(buf_size, fail)
    \/ na_cci_mem_handle_free

SpecMem == InitAfterHG_Init /\ [][NextMem]_vars

(***************************************************************************)
(* SpecExpRace: na_cci_msg_recv_expected on one thread and                 *)
(* handle_recv_expected on the progress thread.  The plugin takes no lock  *)
(* on an address's rxs and early lists, so each function is two steps:     *)
(* the walk of one list, then the insertion into the other.                *)
(***************************************************************************)
\* na_cci_msg_recv_expected up to the end of its walk of source->early: the
\* op is allocated; an early message with the tag is copied, removed and
\* the op completed, and the call returns; else the thread goes on to
\* insert the op into source->rxs.
na_cci_msg_recv_expected_walk(addr, tag, buf_size, fail) ==
    /\ ~crashed
    /\ post_pc.pc = "idle"
    /\ nops < MaxExpOps
    /\ nops' = nops + 1
    /\ \E i \in {FirstWithTag(early[addr], tag)} :
         IF fail = "calloc"
         THEN /\ na_ret' = NA_NOMEM_ERROR
              /\ UNCHANGED <<early, completion_queue, crashed, post_pc>>
         ELSE IF i # 0
         THEN \E p \in {na_cci_msg_recv_expected(rxs[addr], early[addr],
                            Op(nops + 1, "NA_CB_RECV_EXPECTED", nops + 1,
                               buf_size, tag), fail)} :
                  /\ early' = [early EXCEPT ![addr] = p.early]
                  /\ completion_queue' = completion_queue \o p.queued
                  /\ na_ret' = p.ret
                  /\ crashed' \in Outcomes(
                         p.len > buf_size
                         \/ p.len > early[addr][i].buf_size)
                  /\ post_pc' = post_pc
         ELSE /\ post_pc' = [pc |-> "insert",
                             op |-> Op(nops + 1, "NA_CB_RECV_EXPECTED",
                                       nops + 1, buf_size, tag),
                             addr |-> addr]
              /\ UNCHANGED <<early, completion_queue, crashed, na_ret>>
    /\ UNCHANGED <<hgvars, req, wait, status, fwd, rxs, sends, call, tagvars,
                   events, handled, cb_count, unexpected_msg_queue,
                   unexpected_op_queue, nmsgs, posts, matched, prog_pc,
                   timevars, histvars, plugvars>>

\* TAILQ_INSERT_TAIL(&na_cci_addr->rxs, na_cci_op_id, entry), *op_id is
\* assigned and the call returns NA_SUCCESS.
na_cci_msg_recv_expected_insert ==
    /\ ~crashed
    /\ post_pc.pc = "insert"
    /\ rxs' = [rxs EXCEPT ![post_pc.addr] = Append(@, post_pc.op)]
    /\ na_ret' = NA_SUCCESS
    /\ post_pc' = [pc |-> "idle", op |-> NoOp]
    /\ UNCHANGED <<hgvars, req, wait, status, fwd, early, sends,
                   completion_queue, call, crashed, tagvars, nops, events,
                   handled, cb_count, unexpected_msg_queue,
                   unexpected_op_queue, nmsgs, posts, matched, prog_pc,
                   timevars, histvars, plugvars>>

\* handle_recv_expected up to the end of its walk of na_cci_addr->rxs: a
\* receive with the tag is filled, removed and completed, and the handler
\* returns; else the message is copied to a new na_cci_info_recv_expected
\* (dropped when calloc fails), which the thread goes on to insert into
\* na_cci_addr->early.
handle_recv_expected_walk(addr, tag, msg_len, fail) ==
    /\ ~crashed
    /\ prog_pc.pc = "idle"
    /\ nmsgs < MaxMsgs
    /\ nmsgs' = nmsgs + 1
    /\ \E i \in {FirstWithTag(rxs[addr], tag)} :
         IF i # 0
         THEN \E len \in {IF rxs[addr][i].buf_size < msg_len
                          THEN rxs[addr][i].buf_size ELSE msg_len} :
                \E c \in {na_cci_complete(
                              [rxs[addr][i] EXCEPT !.actual_size = len,
                                                   !.written = len],
                              fail)} :
                    /\ rxs' = [rxs EXCEPT ![addr] = RemoveAt(@, i)]
                    /\ completion_queue' = completion_queue \o c.queued
                    /\ prog_pc' = prog_pc
         ELSE /\ prog_pc' =
                    IF fail = "calloc" THEN prog_pc
                    ELSE [pc |-> "cache",
                          msg |-> [id |-> nmsgs + 1, buf_size |-> msg_len,
                                   addr |-> addr, tag |-> tag]]
              /\ UNCHANGED <<rxs, completion_queue>>
    /\ UNCHANGED <<hgvars, req, wait, status, fwd, early, sends, call,
                   crashed, tagvars, ccivars, unexpected_msg_queue,
                   unexpected_op_queue, posts, matched, post_pc, timevars,
                   histvars, plugvars>>

\* TAILQ_INSERT_TAIL(&na_cci_addr->early, rx, entry)
handle_recv_expected_cache ==
    /\ ~crashed
    /\ prog_pc.pc = "cache"
    /\ early' = [early EXCEPT ![prog_pc.msg.addr] =
                    Append(@, [id |-> prog_pc.msg.id,
                               buf_size |-> prog_pc.msg.buf_size,
                               tag |-> prog_pc.msg.tag])]
    /\ prog_pc' = [pc |-> "idle", msg |-> NoMsg]
    /\ UNCHANGED <<hgvars, req, wait, status, fwd, rxs, sends,
                   completion_queue, call, crashed, tagvars, ccivars,
                   unexpected_msg_queue, unexpected_op_queue, nmsgs, posts,
                   matched, post_pc, timevars, histvars, plugvars>>

NextExpRace ==
    \/ \E addr \in Addrs, tag \in ExpTags, buf_size \in ExpBufSizes,
          fail \in ExpPostFails :
         na_cci_msg_recv_expected_walk(addr, tag, buf_size, fail)
    \/ na_cci_msg_recv_expected_insert
    \/ \E addr \in Addrs, tag \in ExpTags, msg_len \in ExpMsgLens,
          fail \in ExpArrivalFails :
         handle_recv_expected_walk(addr, tag, msg_len, fail)
    \/ handle_recv_expected_cache

SpecExpRace == InitAfterHG_Init /\ [][NextExpRace]_vars

C2_TagInRange ==
    \A t \in Threads : ttag[t] >= 0 /\ ttag[t] <= hg_request_max_tag_g

\* C3: after the send callback ran with a transport failure, the send
\* buffer is still in place and the send future has been completed.
C3_SendFailureCompletesFuture ==
    \A r \in Reqs :
        (req[r].mem = "live" /\ req[r].n_send_cb > 0
         /\ req[r].send_cb_ret # NA_SUCCESS) =>
            /\ req[r].send_buf # NULL
            /\ req[r].n_send_complete > 0

\* C4: once the receive callback has run, whatever step of it failed, the
\* receive future has been completed.
C4_RecvCallbackCompletesFuture ==
    \A r \in Reqs : req[r].n_recv_cb > 0 => req[r].n_recv_complete > 0

\* C5: once na_cci_progress has handled the SEND event of a send and the
\* trigger has drained the completion queue, the callback of the send has
\* run exactly once.
C5_HandledSendRanCallbackOnce ==
    \A i \in handled : completion_queue = <<>> => cb_count[i] = 1

\* The final state of a request: both futures consumed, the send buffer and
\* the receive buffer released.
FinalState(q) ==
    /\ q.send_request = NULL /\ q.recv_request = NULL
    /\ q.send_buf = NULL /\ q.sbuf = "freed"
    /\ q.recv_buf = NULL /\ q.rbuf = "freed"

\* C6: a HG_Wait that is entered after both callbacks of the request have
\* run successfully, in whichever order, and that returns HG_SUCCESS leaves
\* the request in its final state and reports the status "done".
C6_EitherOrderSameFinalState ==
    [][\A r \in Reqs :
         (/\ call'.n # call.n
          /\ call'.op = "HG_Wait" /\ call'.r = r /\ call'.ret = HG_SUCCESS
          /\ IF wait.stage = "idle" THEN BothCompleted(req[r]) ELSE wait.both)
         => (/\ FinalState(req'[r])
             /\ call'.flag => status'[r] = 1)]_vars

\* HG_Wait returned "done" for a request in its final state whose receive
\* callback ran first.
C6_Witness ==
    \E r \in Reqs :
        /\ call.op = "HG_Wait" /\ call.r = r /\ call.ret = HG_SUCCESS
        /\ call.flag /\ status[r] = 1
        /\ req[r].first_cb = "recv"
        /\ BothCompleted(req[r])
        /\ FinalState(req[r])

\* C7: the NA calls of the last HG_Forward: the expected receive is posted
\* first; the unexpected send is posted second, with the tag of the
\* receive, and only after the receive was posted successfully; a
\* successful HG_Forward made both.
C7_ReceiveBeforeSendSameTag ==
    LET c == fwd.na_calls
    IN  /\ Len(c) <= 2
        /\ Len(c) >= 1 => c[1].fn = "NA_Msg_recv_expected"
        /\ Len(c) = 2 => /\ c[2].fn = "NA_Msg_send_unexpected"
                         /\ c[1].ret = NA_SUCCESS
                         /\ c[2].tag = c[1].tag
        /\ fwd.ret = HG_SUCCESS => (Len(c) = 2 /\ c[2].ret = NA_SUCCESS)

\* A successful HG_Forward posted the receive and the send with a tag that
\* the generator incremented.
C7_Witness ==
    /\ fwd.ret = HG_SUCCESS
    /\ Len(fwd.na_calls) = 2
    /\ fwd.na_calls[1].tag > 0

\* C8: every expected receive posted on an address belongs to a request
\* that has not been released.
C8_NoReceiveOfReleasedRequest ==
    \A a \in Addrs : \A i \in 1..Len(rxs[a]) :
        req[rxs[a][i].arg].mem = "live"

\* C9: HG_Request_free called on a request with a pending future returns
\* HG_FAIL and leaves every request unchanged; and a request is released
\* only by a HG_Request_free on it with both futures NULL.
C9_FreeOnlyWhenBothFuturesNull ==
    [][\A r \in Reqs :
         /\ (/\ call'.n # call.n
             /\ call'.op = "HG_Request_free" /\ call'.r = r
             /\ (req[r].send_request # NULL \/ req[r].recv_request # NULL))
            => (call'.ret = HG_FAIL /\ req' = req)
         /\ (req[r].mem = "live" /\ req'[r].mem # "live")
            => (/\ call'.n # call.n
                /\ call'.op = "HG_Request_free" /\ call'.r = r
                /\ req[r].send_request = NULL
                /\ req[r].recv_request = NULL)]_vars

\* HG_Request_free failed on a request whose send future was consumed and
\* whose receive future is pending.
C9_Witness ==
    \E r \in Reqs :
        /\ call.op = "HG_Request_free" /\ call.r = r /\ call.ret = HG_FAIL
        /\ hg_na_class_g # NULL
        /\ req[r].mem = "live"
        /\ req[r].send_request = NULL
        /\ req[r].recv_request # NULL

\* The calls that return HG_FAIL when the engine is not initialized.
UninitOps ==
    {"HG_Forward", "HG_Wait", "HG_Wait_all", "HG_Request_free",
     "HG_Registered", "HG_Finalize"}

\* C10: a call that returns while the engine is not initialized
\* (hg_na_class_g is NULL, before HG_Init or after HG_Finalize) returns HG_FAIL
\* (HG_Register: the id 0) and changes neither the process-wide state, nor
\* a request, nor a queue of the transport.
C10_UninitializedCallsFail ==
    [][(~HG_Initialized /\ call'.n # call.n) =>
         /\ call'.op \in UninitOps => call'.ret = HG_FAIL
         /\ call'.op = "HG_Register" => call'.id = 0
         /\ call'.op \in UninitOps \cup {"HG_Register"}
            => (hgvars' = hgvars /\ req' = req /\ navars' = navars)]_vars

\* After HG_Finalize, HG_Request_free was called on a request that was
\* forwarded before and failed.
C10_Witness ==
    /\ ~HG_Initialized
    /\ call.op = "HG_Request_free" /\ call.r # NoReq /\ call.ret = HG_FAIL

\* C11: under any interleaving of the thread that posts unexpected receives
\* with the progress thread, the queue of buffered unexpected messages and
\* the queue of posted unexpected receives are never both non-empty.
C11_QueuesNotBothNonEmpty ==
    ~(unexpected_msg_queue # <<>> /\ unexpected_op_queue # <<>>)

Min(a, b) == IF a < b THEN a ELSE b

MatchesOf(kind, path) ==
    {i \in 1..Len(matched) :
         matched[i].kind = kind /\ matched[i].path = path}

C16_UnexpectedCopiesMin ==
    \A i \in 1..Len(matched) :
        matched[i].kind = "unexpected" =>
            /\ matched[i].copied = Min(matched[i].len, matched[i].buf_size)
            /\ matched[i].actual = Min(matched[i].len, matched[i].buf_size)

C14_EarlyPostReturnsOpId ==
    \A k \in 1..Len(posts) :
        (posts[k].kind = "expected" /\ posts[k].hit
         /\ posts[k].ret = NA_SUCCESS) => posts[k].assigned

\* C15: when an expected message of length L is matched with a receive of
\* buffer size B, on the arrival path and on the early-list path, min(L, B)
\* bytes are copied, actual_size is min(L, B) and no more than B bytes are
\* written to the buffer.
C15_ExpectedCopiesMin ==
    \A i \in 1..Len(matched) :
        matched[i].kind = "expected" =>
            /\ matched[i].copied = Min(matched[i].len, matched[i].buf_size)
            /\ matched[i].actual = Min(matched[i].len, matched[i].buf_size)
            /\ matched[i].copied <= matched[i].buf_size

\* C17: the timeout HG_Wait gives to the wait on recv_request is the
\* timeout it was called with, in milliseconds, minus the time the wait on
\* send_request took, floored at 0.
C17_RecvTimeoutIsRemainder ==
    tw.pc = "recv" =>
        tw.recv_timeout = IF tw.timeout - tw.elapsed < 0 THEN 0
                          ELSE tw.timeout - tw.elapsed

\* C18: when the receive callback runs on a response whose header fails to
\* decode or to verify, the overflow buffer, its bulk handle and the receive
\* buffer of the request are all released when the callback has run.
C18_HeaderFailureReleasesAll ==
    [][\A r \in Reqs :
         (/\ req[r].mem = "live"
          /\ req'[r] # req[r]
          /\ \E fail \in {"header_decode", "header_verify"} :
               req'[r] = hg_recv_output_cb(req[r], NA_SUCCESS, NoEntry, fail))
         => (/\ req'[r].xbuf # "alloc"
             /\ req'[r].xh # "alloc"
             /\ req'[r].rbuf # "alloc")]_vars

\* C19: the overflow buffer of a forwarded request and its bulk handle stay
\* allocated until the receive callback runs on a response (the send
\* callback does not release them), and when the receive callback has
\* succeeded extra_send_buf is null and the buffer and the handle have been
\* freed, once.
C19_OverflowHeldUntilResponse ==
    \A r \in Reqs :
        (req[r].mem = "live" /\ req[r].xbuf # "none") =>
            /\ ~(req[r].n_recv_cb >= 1 /\ req[r].recv_cb_ret = NA_SUCCESS)
                   => (/\ req[r].xbuf = "alloc"
                       /\ req[r].xh = "alloc"
                       /\ req[r].extra_send_buf # NULL
                       /\ req[r].extra_send_buf_handle # NULL)
            /\ req[r].n_recv_complete >= 1
                   => (/\ req[r].xbuf = "freed"
                       /\ req[r].xh = "freed"
                       /\ req[r].extra_send_buf = NULL
                       /\ req[r].extra_send_buf_handle = NULL)

\* The send callback of a request with an overflow buffer ran first, then
\* the receive callback succeeded.
C19_Witness ==
    \E r \in Reqs :
        /\ req[r].mem = "live"
        /\ req[r].first_cb = "send"
        /\ req[r].n_send_complete = 1
        /\ req[r].n_recv_complete = 1
        /\ req[r].xbuf = "freed"
        /\ req[r].xh = "freed"

Collides(n, m) == hg_hash_string(n) = hg_hash_string(m)

\* C21: a call of HG_Register that returns an id returns the hash of the
\* name it was given; HG_Registered, called for a name that HG_Register
\* returned an id for since the function map was created, succeeds and gives
\* *flag true and *id the hash of the name; called for a name that was never
\* given to HG_Register, no more than any name with the same hash, it gives
\* *flag false and *id 0.
C21_RegisteredAfterRegister ==
    [][/\ \A n \in Names, fail \in RegisterFails :
            (HG_Register(n, fail) /\ call'.id # 0)
                => call'.id = hg_hash_string(n)
       /\ \A n \in Names :
            HG_Registered(n, "flag") =>
                /\ reg_hist[n] = "ok" =>
                       /\ call'.ret = HG_SUCCESS
                       /\ call'.flag
                       /\ call'.id = hg_hash_string(n)
                /\ (/\ ~hg_func_map_g.null
                    /\ \A m \in Names :
                          Collides(n, m) => reg_hist[m] = "never") =>
                       /\ call'.ret = HG_SUCCESS
                       /\ ~call'.flag
                       /\ call'.id = 0]_vars

\* HG_Registered has just answered for "rpc_a", which was registered and
\* whose entry "rpc_b" has replaced since.
C21_Witness ==
    /\ call.op = "HG_Registered"
    /\ call.flag
    /\ call.id = hg_hash_string("rpc_a")
    /\ reg_hist["rpc_a"] = "ok"
    /\ hg_func_map_g.tab[call.id].name = "rpc_b"

\* C22: a call of HG_Register with a name whose id is the id of an entry
\* that holds the routines of another name fails (it returns 0, the only
\* failure an hg_id_t can report) and leaves the function map as it was.
C22_CollidingRegistrationFails ==
    [][\A n \in Names, fail \in RegisterFails :
          (/\ HG_Register(n, fail)
           /\ ~hg_func_map_g.null
           /\ hg_func_map_g.tab[hg_hash_string(n)] # NoEntry
           /\ hg_func_map_g.tab[hg_hash_string(n)].name # n)
              => /\ call'.id = 0
                 /\ hg_func_map_g' = hg_func_map_g]_vars

\* C23: a call of na_cci_put whose remote handle is not read-write returns
\* NA_PERMISSION_ERROR; it allocates no op_id, assigns none to *op_id and
\* hands nothing to the transport.
C23_PutReadOnlyRefused ==
    [][\A remote_attr \in {NA_MEM_READ_ONLY}, length \in RmaLengths,
          fail \in RmaFails :
          na_cci_put(remote_attr, length, fail) =>
              /\ na_ret' = NA_PERMISSION_ERROR
              /\ nops' = nops
              /\ sends' = sends
              /\ ~posts'[Len(posts')].assigned
              /\ posts'[Len(posts')].id = 0]_vars

\* A put was refused while the transport holds a transfer posted before.
C23_Witness ==
    /\ na_ret = NA_PERMISSION_ERROR
    /\ posts # <<>>
    /\ posts[Len(posts)].kind = "NA_CB_PUT"
    /\ posts[Len(posts)].ret = NA_PERMISSION_ERROR
    /\ sends # {}

\* C24: once na_cci_progress has handled the event that ends a put or a get
\* that was posted with success, whatever its length, and NA_Trigger has
\* drained the completion queue, the callback of the transfer has run
\* exactly once.
C24_PostedTransferCompletes ==
    \A i \in 1..Len(posts) :
        (/\ posts[i].kind \in {"NA_CB_PUT", "NA_CB_GET"}
         /\ posts[i].assigned
         /\ posts[i].id \in handled
         /\ completion_queue = <<>>)
            => cb_count[posts[i].id] = 1

\* C25: a call of na_cci_progress dispatches at most one event and leaves
\* its loop with the event it dispatched; it returns NA_SUCCESS exactly
\* when it dispatched an event, and NA_TIMEOUT, with no time remaining,
\* when it dispatched none; called with the timeout 0 it calls
\* cci_get_event once.
C25_ProgressOneEventOrTimeout ==
    /\ pg.nhandled <= 1
    /\ pg.nhandled = 1 => pg.pc # "poll"
    /\ pg.pc = "return" =>
           /\ pg.ret \in {NA_SUCCESS, NA_TIMEOUT}
           /\ pg.ret = NA_SUCCESS <=> pg.nhandled = 1
           /\ pg.ret = NA_TIMEOUT => pg.remaining <= 0
           /\ pg.timeout = 0 => pg.polls = 1

\* na_cci_progress returns the event it found after polls that found none,
\* with time remaining and another event on the endpoint.
C25_Witness ==
    /\ pg.pc = "return"
    /\ pg.ret = NA_SUCCESS
    /\ pg.polls > 1
    /\ pg.remaining > 0
    /\ events # <<>>

\* C26: a call of na_cci_cancel on a receive that is posted on an address
\* and not matched takes the op off the queue of the address and puts it
\* on the completion queue with an error code.
C26_CancelRemovesAndCompletes ==
    [][\A i \in 1..MaxExpOps :
          (/\ na_cci_cancel(i)
           /\ \E a \in Addrs : \E k \in 1..Len(rxs[a]) : rxs[a][k].id = i)
              => /\ \A a \in Addrs :
                      \A k \in 1..Len(rxs'[a]) : rxs'[a][k].id # i
                 /\ \E k \in 1..Len(completion_queue') :
                      /\ completion_queue'[k].op.id = i
                      /\ completion_queue'[k].ret # NA_SUCCESS]_vars

\* C27: when HG_Wait_all returns from its loop it has called HG_Wait once
\* for each element of the array, in the order of the array and each time
\* with the timeout it was given itself, and the status of every request
\* of the array that is not NULL is the status HG_Wait reported for it.
C27_WaitAllWaitsEachInOrder ==
    (wa.pc = "returned" /\ wa.ret # "none" /\ hg_na_class_g # NULL) =>
        /\ Len(wa.calls) = Len(wa.array)
        /\ \A k \in 1..Len(wa.array) :
              /\ wa.calls[k].request = wa.array[k]
              /\ wa.calls[k].timeout = wa.timeout
              /\ wa.array[k] # NoReq =>
                     /\ wa.statuses[k] = wa.calls[k].status
                     /\ wa.statuses[k] \in {0, 1}

\* HG_Wait_all has returned for two distinct requests, of which the first
\* is not complete and the second is, after time has passed.
C27_Witness ==
    /\ wa.pc = "returned"
    /\ wa.array = <<1, 2>>
    /\ wa.timeout > 0
    /\ wa.calls[2].timeout = wa.timeout
    /\ wa.elapsed > 0
    /\ wa.statuses = <<0, 1>>

\* C28: HG_Request_free, called while the engine is initialized on a
\* request whose two futures are consumed and whose out_struct is NULL (so
\* that no decode routine is to be called), succeeds and frees the request.
C28_FreeWithoutOutStructDestroys ==
    [][\A r \in Reqs :
          (/\ HG_Request_free(r, "none")
           /\ hg_na_class_g # NULL
           /\ req[r].mem = "live"
           /\ req[r].send_request = NULL
           /\ req[r].recv_request = NULL
           /\ req[r].out_struct = NULL)
              => /\ call'.ret = HG_SUCCESS
                 /\ req'[r].mem = "freed"]_vars

\* C29: a call of HG_Finalize on an initialized engine finalizes the bulk
\* layer when HG_Init initialized it, and leaves a bulk layer the
\* application initialized before HG_Init initialized; it initializes none.
C29_FinalizeBulkOnlyIfOwned ==
    [][\A fail \in FinalizeFails :
          (HG_Finalize(fail) /\ hg_na_class_g # NULL) =>
              /\ bulk_owner = "app" =>
                     /\ hg_bulk_na_class_g' = hg_bulk_na_class_g
                     /\ hg_bulk_na_class_g' # NULL
              /\ (bulk_owner = "engine" /\ fail # "bulk") =>
                     hg_bulk_na_class_g' = NULL
              /\ bulk_owner = "none" => hg_bulk_na_class_g' = NULL]_vars

\* HG_Finalize has returned with success and the bulk layer that the
\* application initialized is still there.
C29_Witness ==
    /\ call.op = "HG_Finalize"
    /\ call.ret = HG_SUCCESS
    /\ hg_na_class_g = NULL
    /\ bulk_owner = "app"
    /\ hg_bulk_na_class_g # NULL

\* C30: na_cci_mem_handle_deserialize of a buffer that
\* na_cci_mem_handle_serialize filled yields a handle with the base, the
\* size, the attribute and the registration of the serialized handle; each
\* of the two calls with a buffer smaller than the serialize size returns
\* NA_SIZE_ERROR, and then no byte is copied and no handle is written.
C30_MemHandleRoundTrip ==
    [][/\ \A buf_size \in MemBufSizes, fill \in MemBufFills :
             na_cci_mem_handle_serialize(buf_size, fill) =>
                 IF buf_size < na_cci_mem_handle_get_serialize_size
                 THEN /\ mh'.ret = NA_SIZE_ERROR
                      /\ mh'.buf = [i \in 1 .. buf_size |-> fill]
                      /\ ~mh'.has_out
                 ELSE mh'.ret = NA_SUCCESS
       /\ \A buf_size \in MemBufSizes :
             na_cci_mem_handle_deserialize(buf_size, "none") =>
                 IF buf_size < na_cci_mem_handle_get_serialize_size
                 THEN /\ mh'.ret = NA_SIZE_ERROR
                      /\ ~mh'.has_out
                 ELSE /\ mh'.ret = NA_SUCCESS
                      /\ mh'.has_out
                      /\ mh'.out.base = mh.handle.base
                      /\ mh'.out.size = mh.handle.size
                      /\ mh'.out.attr = mh.handle.attr
                      /\ mh'.out.h = mh.handle.h]_vars

\* A registered read-only handle of a non-empty region went through
\* serialize and deserialize.
C30_Witness ==
    /\ mh.pc = "deserialized"
    /\ mh.ret = NA_SUCCESS
    /\ mh.has_out
    /\ mh.handle.h \in RmaHandles
    /\ mh.handle.attr = NA_MEM_READ_ONLY
    /\ mh.handle.size > 0
    /\ mh.out = mh.handle

\* Thread t is the only caller of hg_gen_request_tag so far.
SingleCaller(t) ==
    \A u \in Threads \ {t} : tdraws[u] = 0 /\ tpc[u] = "idle"

\* C31: with a single caller, starting from the counter 0 that HG_Init
\* leaves, the k-th draw of hg_gen_request_tag returns k modulo
\* hg_request_max_tag_g + 1 and leaves the counter at the tag returned: the
\* counter plus one while the counter is below hg_request_max_tag_g, and 0,
\* with the counter back at 0, when it equals hg_request_max_tag_g.
C31_SingleCallerTagWraps ==
    \A t \in Threads :
        (SingleCaller(t) /\ tpc[t] = "idle" /\ tdraws[t] >= 1) =>
            /\ ttag[t] = tdraws[t] % (hg_request_max_tag_g + 1)
            /\ hg_request_tag_g = ttag[t]

\* A single caller drew hg_request_max_tag_g and then 0.
C31_Witness ==
    \E t \in Threads :
        /\ SingleCaller(t)
        /\ tpc[t] = "idle"
        /\ tdraws[t] = hg_request_max_tag_g + 1
        /\ ttag[t] = 0
        /\ hg_request_tag_g = 0

\* C32: every expected receive that was matched with a message, on the
\* arrival path or on the early-list path and whatever the length of the
\* message, was pushed to the completion queue, unless an allocation of
\* na_cci_complete failed.
C32_MatchedExpectedIsQueued ==
    \A i \in 1..Len(matched) :
        matched[i].kind = "expected" =>
            matched[i].ret \in {NA_SUCCESS, NA_NOMEM_ERROR}

\* C33: whenever neither thread is inside na_cci_msg_recv_expected or
\* handle_recv_expected, no address holds both a posted receive with a tag
\* in rxs and a buffered message with that tag in early.
C33_NoReceiveAndEarlySameTag ==
    (post_pc.pc = "idle" /\ prog_pc.pc = "idle") =>
        \A a \in Addrs :
            \A i \in 1..Len(rxs[a]) : \A j \in 1..Len(early[a]) :
                rxs[a][i].tag # early[a][j].tag

\* C34: in every state of a request that has not been destroyed, if its
\* send future has been completed then its send buffer has been released,
\* once, and send_buf is NULL with send_buf_size 0.
C34_SendDoneMeansBufferReleased ==
    \A r \in Reqs :
        (req[r].mem = "live" /\ req[r].n_send_complete > 0) =>
            /\ req[r].sbuf = "freed"
            /\ req[r].send_buf = NULL
            /\ req[r].send_buf_size = 0

\* The send callback of a request has completed the send future, and the
\* receive callback has not run yet.
C34_Witness ==
    \E r \in Reqs :
        /\ req[r].mem = "live"
        /\ req[r].n_send_complete = 1
        /\ req[r].send_completed
        /\ req[r].n_recv_cb = 0
        /\ req[r].sbuf = "freed"
        /\ req[r].send_buf = NULL

\* C35: a call of HG_Init with a valid class on an engine that is not
\* initialized, when it returns HG_FAIL, leaves the engine not initialized:
\* HG_Initialized reports false and a later HG_Init is not rejected as
\* already initialized.
C35_FailedInitLeavesUninitialized ==
    [][\A fail \in InitFails :
          (/\ HG_Init(NaClass, fail)
           /\ ~HG_Initialized
           /\ call'.ret = HG_FAIL) => hg_na_class_g' = NULL]_vars

\* C36: once both callbacks of a request that HG_Forward returned have
\* succeeded and HG_Wait has reported it done, HG_Request_free on it, with
\* the engine initialized and no failure of the proc, returns HG_SUCCESS and
\* destroys the request, whatever the id and the input structure it was
\* forwarded with.
C36_ForwardedRequestCanBeFreed ==
    [][\A r \in Reqs :
          (/\ HG_Request_free(r, "none")
           /\ HG_Initialized
           /\ req[r].mem = "live"
           /\ req[r].n_send_complete = 1
           /\ req[r].n_recv_complete = 1
           /\ status[r] = 1)
              => /\ call'.ret = HG_SUCCESS
                 /\ req'[r].mem # "live"]_vars

C38_RegisterZeroLeavesMapUnchanged ==
    [][\A func_name \in Names, fail \in RegisterFails :
          HG_Register(func_name, fail) =>
              /\ call'.id = 0 => hg_func_map_g' = hg_func_map_g
              /\ ~hg_func_map_g'.null =>
                     \A id \in DOMAIN hg_func_map_g'.tab :
                         ~hg_func_map_g'.tab[id].freed]_vars

\* C39: a call of na_cci_msg_recv_expected that returns a code other than
\* NA_SUCCESS leaves the early list and the posted-receive queue of every
\* address as they were.
C39_FailedPostLeavesQueues ==
    [][\A addr \in Addrs, tag \in ExpTags, buf_size \in ExpBufSizes,
          fail \in ExpPostFails :
          (/\ NA_Msg_recv_expected(addr, tag, buf_size, fail)
           /\ na_ret' # NA_SUCCESS)
              => (early' = early /\ rxs' = rxs)]_vars

\* C40: on every path through HG_Forward, the overflow buffer of the
\* request is released at most once: by the proc while the proc owns it, or
\* through the request once the request owns it.
C40_OverflowReleasedAtMostOnce ==
    \A r \in Reqs : req[r].xbuf # "freed_twice"

====
